---------------------------- MODULE Spec2Model ----------------------------
(***************************************************************************)
(* Verification model of the transition / suspense coordination core of    *)
(* svelte-creative-template: Hook (pub/sub channel), SuspenseContext,      *)
(* TweenTransition, Crossfade and PortalContext.                           *)
(*                                                                         *)
(* Each subsystem has its own variables (prefix h, s, t, x, p), its own    *)
(* initial predicate and next-state relation, and its own specification    *)
(* (SpecHook, SpecSuspense, ...).  A specification leaves the variables of *)
(* the other subsystems unchanged.                                         *)
(***************************************************************************)
EXTENDS Integers, Sequences, FiniteSets, TLC

VARIABLES
    \* ---- Hook (src/src/lib/hooks/core/Hook.ts)
    hEntries,    \* Hook._entries: sequence of entry object ids
    hObj,        \* the entry objects, by id (entries are shared by reference)
    hNext,       \* number of entry objects allocated so far
    hPc,         \* position of the running dispatch: "idle" | "main" | "deferred"
    hIdx,        \* index of the array iterator of the main loop of dispatch
    hDeferred,   \* dispatch's local deferredEntries
    hDIdx,       \* index of the iterator over deferredEntries
    hLog,        \* history: the listeners the current (or the just returned) call
                 \* of the hook's API invoked, in order, each with the priority of
                 \* its entry
    hStart,      \* history: listeners registered and enabled when the dispatch began
    hMissed,     \* history: listeners of hStart still registered when the dispatch
                 \* returned that it did not invoke exactly once
    hOptions,    \* Hook._options: validate (and its current value) and ssr
    hMounts,     \* entries whose catch-up run waits in an onMount callback
    hTrace,      \* history: whether hThrew and hRet are recorded
    hThrew,      \* history: the listeners whose run ended in the catch block of
                 \* _run during the current (or the just returned) dispatch
    hTwice,      \* history, where hTrace is set: the listeners of which the last
                 \* step called a cleanup that had been called before
    hRet         \* history: how the last call of the hook's API ended.  dispatch:
                 \* "running", "void" (afterDispatch has run and dispatch has
                 \* returned) or "throws" (left by an exception); addListener:
                 \* "added" or "kept" (the callback was registered already);
                 \* removeListener: "true", "false" or "throws"; a catch-up run at
                 \* mount: "mounted"; "none" before any call

VARIABLES
    \* ---- PortalContext (src/src/lib/portal/core/PortalContext.svelte.ts)
    pTransitions, \* PortalContext._transitions: sequence of samples
    pConnected,   \* node.isConnected of every DOM node
    pDuration,    \* duration the keepAlive resolution just returned (-1: none, or
                  \* the portal has been used since)
    pRecorded,    \* history: samples recorded since the last keepAlive resolution
    pDrained,     \* history: the samples the last resolution had to consider, each
                  \* with whether it counts as attached (no node, or node connected)
    pTrace,       \* whether the calls of trackAnimation are recorded in pCall
    pCall         \* history, where pTrace: the last trackAnimation call, what it
                  \* was given and what it returned

VARIABLES
    \* ---- Crossfade (src/src/lib/animation/core/Crossfade.ts, lines 20-78)
    xToSend,     \* Crossfade._toSend: key -> waiting node (0: no entry)
    xToReceive,  \* Crossfade._toReceive
    xClosures,   \* the functions _getTransition's transition returned, one per
                 \* registration; the node of registration c is node c
    xNext        \* number of registrations so far

VARIABLES
    \* ---- SuspenseContext (src/src/lib/suspense/core/SuspenseContext.svelte.ts)
    sFinal,       \* options.final
    sParent,      \* the dependency: "none", or the parent's suspended() state
    sPending,     \* _pendingTasks: holder -> number of its pending tasks
    sPreds,       \* _pendingStates: holder -> state of the predicate it registered
    sDelays,      \* _pendingDelays: holder -> seconds (-1: no entry)
    sAlive,       \* which components holding a ComponentSuspense are not destroyed
    sSuspended,   \* _suspended
    sTotal,       \* _totalTaskCount
    sHasRevealed, \* _hasRevealed
    sTimer,       \* ms left on the timeout of _timeoutId (-1: none pending)
    sDirty,       \* the $effect of _init is scheduled to run
    sEv,          \* history: the hook the last step dispatched ("none" if none)
    sTrace,       \* history: whether the clock below is recorded
    sNow,         \* history: ms since construction
    sSettledAt,   \* history: sNow when a settling task last emptied _pendingTasks
    sRegDelays,   \* history: the delays (seconds) registered so far
    sRejected     \* history: how many of the settled tasks rejected

VARIABLES
    \* ---- SuspenseContext.extend: the task sets, promise by promise
    kPendingTasks,   \* _pendingTasks: the set of the pending promises
    kComponentTasks, \* componentTasks of every component holding a handle
    kPendingStates,  \* _pendingStates: the set of the registered predicates
    kComponentStates,\* componentStates of every component holding a handle
    kAlive,          \* which of these components are not destroyed
    kSettled         \* the promises that have settled

VARIABLES
    \* ---- TweenTransition (src/src/lib/animation/core/Crossfade.ts, l. 504-1104)
    tOptions,     \* _options
    tAnims,       \* the animation objects the instance refers to: progress and state
    tAnimation,   \* _animation (0: null)
    tDirection,   \* _direction ("none": null)
    tRatio,       \* _ratio, in units of 1 / PMax
    tRecords,     \* _records
    tQueuedIdle,  \* _qeuedIdle: the empty set (null) or the parameters of one idle()
    tAllowIdle,   \* _allowIdle
    tTrace,       \* history: whether tCall records what a call resolved
    tSeen,        \* history, where tTrace is set: which of the onMount callback
                  \* ("mount"), intro() and outro() have run
    tCall,        \* history: the last step, what it passed on and returned
    tWatch,       \* whether the elements are followed: the element and data of
                  \* the records, tPointer, tExecuted and the events of tCall
    tPointer,     \* where tWatch is set: the elements whose pointer-events style
                  \* is "none"
    tExecuted     \* history, where tWatch is set: per element the direction of the
                  \* last transition recorded in _records with it ("none": none)

VARIABLES
    \* ---- AppContext (src/src/lib/states/core/AppContext.svelte.ts) and the page
    \* ---- component (src/unnamed/part_011) inside the template's key block
    aInitial,      \* AppContext._initial
    aSwapping,     \* AppContext._swapping
    aSwap,         \* AppContext._swap: the deferred of the constructor (0) or the
                   \* one made by the outro of a page (the page's number)
    aResolved,     \* the deferreds whose resolve() has been called
    aFrozen,       \* _frozenStates: component ids
    aScrollPaused, \* _scrollPausedStates: component ids
    aAlive,        \* the components that are not destroyed
    aNav,          \* whether a navigation has started and not yet completed
    aPage,         \* every page: "none" (not rendered yet), "created", "mounted",
                   \* "leaving" (outro called), "pinned" (outroHandler has run as
                   \* well) or "destroyed"
    aSnapshot,     \* the pages whose useApp() captured initial = true
    aAfter,        \* history: the entering pages the afterSwap listeners were given
    aHeld,         \* history: per flag, the components whose last own call set it
                   \* to true and that have not been destroyed since
    aLast,         \* history: what the last step was
    aOnce,         \* the pages alive whose outroHandler has been called (once)
    aBefore,       \* history: what the beforeSwap listeners of the last outro could
                   \* read of swapping() and swap(), and the deferred whose
                   \* promise they were given
    aHanded        \* history: per leaving page the deferred whose promise the
                   \* beforeSwap listeners got (before), the one whose promise the
                   \* onSwap listeners got (on) and the one resolved after the
                   \* afterSwap dispatch of its destruction (done); -1: none

VARIABLES
    \* ---- PreloadContext (src/unnamed/part_020, l. 1-182)
    iImages,     \* _preloadedImages: per query its entry, or NoImage
    iPromises,   \* the promises _createImagePreload has made, in order: the query,
                 \* the entry whose handlers are attached to it and its state
    iQueries,    \* componentQueries of every component
    iAlive,      \* the components that are not destroyed
    iCall        \* history: the last step, and the promise preloadImage returned

hookVars == <<hEntries, hObj, hNext, hPc, hIdx, hDeferred, hDIdx, hLog, hStart, hMissed,
              hOptions, hMounts, hTrace, hThrew, hRet, hTwice>>

portalVars == <<pTransitions, pConnected, pDuration, pRecorded, pDrained, pTrace, pCall>>

crossfadeVars == <<xToSend, xToReceive, xClosures, xNext>>

suspenseVars == <<sFinal, sParent, sPending, sPreds, sDelays, sAlive, sSuspended, sTotal,
                  sHasRevealed, sTimer, sDirty, sEv, sTrace, sNow, sSettledAt, sRegDelays,
                  sRejected>>

scopeVars == <<kPendingTasks, kComponentTasks, kPendingStates, kComponentStates, kAlive,
               kSettled>>

tweenVars == <<tOptions, tAnims, tAnimation, tDirection, tRatio, tRecords, tQueuedIdle,
               tAllowIdle, tTrace, tSeen, tCall, tWatch, tPointer, tExecuted>>

appVars == <<aInitial, aSwapping, aSwap, aResolved, aFrozen, aScrollPaused, aAlive, aNav,
             aPage, aSnapshot, aAfter, aHeld, aLast, aOnce, aBefore, aHanded>>

preloadVars == <<iImages, iPromises, iQueries, iAlive, iCall>>

vars == <<hookVars, portalVars, crossfadeVars, suspenseVars, scopeVars, tweenVars, appVars,
          preloadVars>>

\* what the actions of one subsystem leave unchanged
notHook == <<portalVars, crossfadeVars, suspenseVars, scopeVars, tweenVars, appVars,
    preloadVars>>
notPortal == <<hookVars, crossfadeVars, suspenseVars, scopeVars, tweenVars, appVars,
    preloadVars>>
notCrossfade == <<hookVars, portalVars, suspenseVars, scopeVars, tweenVars, appVars,
    preloadVars>>
notSuspense == <<hookVars, portalVars, crossfadeVars, scopeVars, tweenVars, appVars,
    preloadVars>>
notScope == <<hookVars, portalVars, crossfadeVars, suspenseVars, tweenVars, appVars,
    preloadVars>>
notApp == <<hookVars, portalVars, crossfadeVars, suspenseVars, scopeVars, tweenVars,
    preloadVars>>
notPreload == <<hookVars, portalVars, crossfadeVars, suspenseVars, scopeVars, tweenVars,
    appVars>>
notTween == <<hookVars, portalVars, crossfadeVars, suspenseVars, scopeVars, appVars,
    preloadVars>>

-----------------------------------------------------------------------------
(* Generic helpers *)

Range(s) == {s[i] : i \in DOMAIN s}

RemoveAt(s, i) == SubSeq(s, 1, i - 1) \o SubSeq(s, i + 1, Len(s))

Count(s, x) == Cardinality({i \in DOMAIN s : s[i] = x})

Max(a, b) == IF a >= b THEN a ELSE b

Min(a, b) == IF a <= b THEN a ELSE b

\* SvelteTransitionDirection
Directions == {"in", "out", "both"}

-----------------------------------------------------------------------------
(***************************************************************************)
(* Transition validation (TweenTransition.validate and what it calls)      *)
(***************************************************************************)

\* Values of a data-instant / data-bypass attribute found on the attachment or
\* its closest ancestor: "null" is no attribute, "other" any value but
\* "in", "out" and "false".
FlagValues == {"null", "in", "out", "false", "other"}

Directions2 == {"in", "out"}

\* resolveDataFlag
ResolveDataFlag(value, direction, fallback) ==
    CASE value = "null" -> fallback
      [] value = "in" -> direction = "in"
      [] value = "out" -> direction = "out"
      [] OTHER -> value # "false"

\* resolveDirection: 'both' is 'out' for an inert node and 'in' otherwise
ResolveDirection(inert, direction) ==
    IF direction \in Directions2 THEN direction
    ELSE IF inert THEN "out" ELSE "in"

ShouldSkipTransition_anyInstant(direction, bypass, instant, hasAttach, inViewport, visible) ==
    \/ bypass
    \/ instant
    \/ (inViewport /\ hasAttach /\ ~visible)

\* shouldSkipTransition; inViewport is FALSE (undefined / false) or TRUE (true or
\* a threshold), visible is ScrollTrigger.isInViewport(attach, threshold)
ShouldSkipTransition(direction, bypass, instant, hasAttach, inViewport, visible) ==
    \/ bypass
    \/ (direction = "out" /\ instant)
    \/ (inViewport /\ hasAttach /\ ~visible)

\* TweenTransition.validate(node, direction, inViewport) for a node with the
\* given attributes: resolveParams with no options, so both flags fall back to
\* false
Validate(node, direction, inViewport) ==
    LET resolvedDirection == ResolveDirection(node.inert, direction)
        instant == ResolveDataFlag(node.dataInstant, resolvedDirection, FALSE)
        bypass == ResolveDataFlag(node.dataBypass, resolvedDirection, FALSE)
    IN ~ShouldSkipTransition(resolvedDirection, bypass, instant, TRUE, inViewport, node.visible)

\* What a DOM node looks like when a transition on it is resolved.
NodeAttrs ==
    [inert : BOOLEAN, dataInstant : FlagValues, dataBypass : FlagValues, visible : BOOLEAN]

-----------------------------------------------------------------------------
(***************************************************************************)
(* Crossfade                                                               *)
(***************************************************************************)

\* Number of keys nodes register under.
NKeys == 2
\* Number of registrations (send or receive) in one behaviour.
MaxRegs == 3

Keys == 1..NKeys
RegIds == 1..MaxRegs
Sides == {"send", "receive"}

NoClosure ==
    [side |-> "none", key |-> 0, state |-> "none", counterpart |-> 0,
     valid |-> FALSE, peers |-> {}, found |-> 0]

CrossfadeInit ==
    /\ xToSend = [k \in Keys |-> 0]
    /\ xToReceive = [k \in Keys |-> 0]
    /\ xClosures = [c \in RegIds |-> NoClosure]
    /\ xNext = 0

\* the maps `items` and `counterparts` of the transition of a side
Items(side) == IF side = "send" THEN xToSend ELSE xToReceive
Counterparts(side) == IF side = "send" THEN xToReceive ELSE xToSend

SetMaps(side, items, counterparts) ==
    /\ xToSend' = IF side = "send" THEN items ELSE counterparts
    /\ xToReceive' = IF side = "send" THEN counterparts ELSE items

\* the transition function is called for a node: items.set(params.key, node)
XRegister(side, key) ==
    /\ xNext < MaxRegs
    /\ LET c == xNext + 1
       IN /\ SetMaps(side, [Items(side) EXCEPT ![key] = c], Counterparts(side))
          /\ xClosures' = [xClosures EXCEPT ![c] =
                [side |-> side, key |-> key, state |-> "pending", counterpart |-> 0,
                 valid |-> FALSE, peers |-> {}, found |-> 0]]
          /\ xNext' = c
    /\ UNCHANGED notCrossfade

Delete_keeps(map, key) == map

\* Map.delete(key)
Delete(map, key) == [map EXCEPT ![key] = 0]

\* TweenTransition.validate(node, options.direction, 1)
Validated(attrs, direction) == Validate(attrs, direction, TRUE)

\* the results validation can have, over all nodes and directions
ValidationOutcomes == {Validated(attrs, dir) : attrs \in NodeAttrs, dir \in Directions}

\* the returned function of registration c is called (the transition resolves);
\* ok is the result of validating its node
XResolve(c, ok) ==
    /\ xClosures[c].state = "pending"
    /\ LET side == xClosures[c].side
           key == xClosures[c].key
           target == Counterparts(side)[key]
           \* history: the result of validation, the registrations of the
           \* other side under the key made before this resolution, and the
           \* node counterparts.get found (0: none)
           done == [xClosures[c] EXCEPT !.valid = ok, !.found = target, !.peers =
                       {d \in 1..xNext : xClosures[d].side # side /\ xClosures[d].key = key}]
       IN IF target # 0 /\ ok
          THEN /\ SetMaps(side, Items(side), Delete(Counterparts(side), key))
               /\ xClosures' = [xClosures EXCEPT ![c] =
                     [done EXCEPT !.state = "paired", !.counterpart = target]]
          ELSE /\ SetMaps(side, Delete(Items(side), key), Delete(Counterparts(side), key))
               /\ xClosures' = [xClosures EXCEPT ![c] = [done EXCEPT !.state = "fallback"]]
    /\ UNCHANGED xNext
    /\ UNCHANGED notCrossfade

CrossfadeNext ==
    \/ \E side \in Sides, key \in Keys : XRegister(side, key)
    \/ \E c \in RegIds, ok \in ValidationOutcomes : XResolve(c, ok)

-----------------------------------------------------------------------------
(***************************************************************************)
(* PortalContext                                                           *)
(***************************************************************************)

\* Number of DOM nodes whose transitions are tracked.
NNodes == 2
\* Longest _transitions list explored.
MaxSamples == 2
\* Largest delay() / duration() of a tracked animation handle, in seconds.
MaxAnimSeconds == 1
\* gsap reports seconds, transition configs are in milliseconds (the * 1000).
MsPerSecond == 1000

Nodes == 1..NNodes
\* delay and duration (ms) a resolved declarative transition may have
TransitionDelays == {0, 100}
TransitionDurations == {50, 200}

\* this._transitions.push({ delay, duration }) / push({ node, delay, duration });
\* node 0 stands for a sample without node
Sample(node, delay, duration) == [node |-> node, delay |-> delay, duration |-> duration]

\* !node || node.isConnected ? delay + duration : 0
Contribution_ignoreDetached(sample, connected) == sample.delay + sample.duration

Contribution(sample, connected) ==
    IF sample.node = 0 \/ connected[sample.node]
    THEN sample.delay + sample.duration
    ELSE 0

\* Math.max(0, ...this._transitions.map(...)), left to right
RECURSIVE MaxContribution(_, _)
MaxContribution(samples, connected) ==
    IF samples = <<>> THEN 0
    ELSE Max(Contribution(Head(samples), connected),
             MaxContribution(Tail(samples), connected))

RecordsDirection_outOnly(direction) == direction = "out"

\* options.direction !== 'in'
RecordsDirection(direction) == direction # "in"

\* a delay or duration the resolved transition config does not give is the
\* empty set, a given one the singleton of its value
NoValue == {}

\* const { delay = 0, duration = 0, ...config } = resolveTransition(...)
OrZero(value) == IF value = NoValue THEN 0 ELSE CHOOSE x \in value : TRUE

\* what trackAnimation returns: the animation handle ("handle"), the
\* null argument ("null"), {} ("empty") or a config with delay and duration
Returned(kind, delay, duration) == [kind |-> kind, delay |-> delay, duration |-> duration]

NoPCall ==
    [op |-> "none", node |-> 0, direction |-> "none", delay |-> NoValue,
     duration |-> NoValue, ret |-> Returned("none", 0, 0)]

PCall(call) == IF pTrace THEN call ELSE NoPCall

PortalBoot(trace) ==
    /\ pTransitions = <<>>
    /\ pConnected = [n \in Nodes |-> TRUE]
    /\ pDuration = -1
    /\ pRecorded = {}
    /\ pDrained = {}
    /\ pTrace = trace
    /\ pCall = NoPCall

PortalInit == PortalBoot(FALSE)

\* trackAnimation(animation): a gsap animation handle
PTrackAnimation(delaySec, durationSec) ==
    /\ Len(pTransitions) < MaxSamples
    /\ LET sample == Sample(0, delaySec * MsPerSecond, durationSec * MsPerSecond)
       IN /\ pTransitions' = Append(pTransitions, sample)
          /\ pRecorded' = pRecorded \cup {sample}
    /\ pDuration' = -1
    /\ pDrained' = {}
    /\ pCall' = PCall([NoPCall EXCEPT !.op = "animation",
                                      !.delay = {delaySec}, !.duration = {durationSec},
                                      !.ret = Returned("handle", delaySec, durationSec)])
    /\ UNCHANGED <<pConnected, pTrace>>
    /\ UNCHANGED notPortal

\* trackAnimation(node, factory, options): a declarative transition whose
\* resolved config gives the delay and the duration, or leaves them out
PTrackTransition(node, direction, delay, duration) ==
    /\ Len(pTransitions) < MaxSamples
    /\ LET sample == Sample(node, OrZero(delay), OrZero(duration))
       IN /\ IF RecordsDirection(direction)
             THEN /\ pTransitions' = Append(pTransitions, sample)
                  /\ pRecorded' = pRecorded \cup {sample}
             ELSE UNCHANGED <<pTransitions, pRecorded>>
          /\ pCall' = PCall([op |-> "transition", node |-> node, direction |-> direction,
                             delay |-> delay, duration |-> duration,
                             ret |-> Returned("config", sample.delay, sample.duration)])
    /\ pDuration' = -1
    /\ pDrained' = {}
    /\ UNCHANGED <<pConnected, pTrace>>
    /\ UNCHANGED notPortal

\* trackAnimation(null) returns its argument; trackAnimation(node) without
\* factory or options returns {}
Nothings == {"null", "empty"}

PTrackNothing(what) ==
    /\ pDuration' = -1
    /\ pDrained' = {}
    /\ pCall' = PCall([NoPCall EXCEPT !.op = "nothing", !.ret = Returned(what, 0, 0)])
    /\ UNCHANGED <<pTransitions, pConnected, pRecorded, pTrace>>
    /\ UNCHANGED notPortal

\* the DOM removes or inserts a node
PSetConnected(node, connected) ==
    /\ pConnected[node] # connected
    /\ pConnected' = [pConnected EXCEPT ![node] = connected]
    /\ pCall' = NoPCall
    /\ UNCHANGED <<pTransitions, pDuration, pRecorded, pDrained, pTrace>>
    /\ UNCHANGED notPortal

Attached(sample, connected) ==
    [delay |-> sample.delay, duration |-> sample.duration,
     attached |-> (sample.node = 0 \/ connected[sample.node])]

\* this._transitions = []
KeepAliveClear == <<>>

\* the function keepAlive returns is resolved
PKeepAlive ==
    /\ pDuration' = MaxContribution(pTransitions, pConnected)
    /\ pTransitions' = KeepAliveClear
    /\ pDrained' = {Attached(x, pConnected) : x \in pRecorded}
    /\ pRecorded' = {}
    /\ pCall' = NoPCall
    /\ UNCHANGED <<pConnected, pTrace>>
    /\ UNCHANGED notPortal

PortalNext ==
    \/ \E d, u \in 0..MaxAnimSeconds : PTrackAnimation(d, u)
    \/ \E n \in Nodes, dir \in Directions, d \in TransitionDelays, u \in TransitionDurations :
          PTrackTransition(n, dir, {d}, {u})
    \/ \E what \in Nothings : PTrackNothing(what)
    \/ \E n \in Nodes, c \in BOOLEAN : PSetConnected(n, c)
    \/ PKeepAlive

\* a portal whose trackAnimation calls are recorded, wrapping transitions that
\* may leave out their delay or their duration
PortalTrackInit == PortalBoot(TRUE)

ConfigDelays == {NoValue} \cup {{d} : d \in TransitionDelays}
ConfigDurations == {NoValue} \cup {{u} : u \in TransitionDurations}

PortalTrackNext ==
    \/ \E d, u \in 0..MaxAnimSeconds : PTrackAnimation(d, u)
    \/ \E n \in Nodes, dir \in Directions, d \in ConfigDelays, u \in ConfigDurations :
          PTrackTransition(n, dir, d, u)
    \/ \E what \in Nothings : PTrackNothing(what)
    \/ PKeepAlive

-----------------------------------------------------------------------------
(***************************************************************************)
(* SuspenseContext                                                         *)
(***************************************************************************)

\* Largest number of tasks (promises) pending at the same time.
NTasks == 2
\* Number of components holding a ComponentSuspense handle.
NComps == 1
\* The recorded clock stops the behaviour at MaxTime ms.
MaxTime == 2000

\* Largest _totalTaskCount explored.
MaxTotal == NTasks + 1
\* Time advances in steps of at most Quantum ms.
Quantum == MsPerSecond \div 2

Comps == 1..NComps
\* who registered an entry: 0 is the options of the constructor
Owners == {0} \cup Comps
\* the settle delays (seconds) that get registered
DelayValues == {1, 2}
\* a predicate: not registered, or registered and currently returning true / false
PredStates == {"none", "true", "false"}

RECURSIVE SumOver(_, _)
SumOver(f, S) ==
    IF S = {} THEN 0
    ELSE LET x == CHOOSE y \in S : TRUE IN f[x] + SumOver(f, S \ {x})

\* this._pendingTasks.size
PendingCount == SumOver(sPending, Owners)

RECURSIVE MaxOf(_)
MaxOf(S) ==
    IF S = {} THEN 0
    ELSE LET x == CHOOSE y \in S : TRUE IN Max(x, MaxOf(S \ {x}))

GetDelay_unscaled(delays) == MaxOf({delays[o] : o \in {h \in DOMAIN delays : delays[h] # -1}})

GetDelay_option(delays) == Max(0, delays[0]) * MsPerSecond

\* Math.max(0, ...this._pendingDelays.values()) * 1000
GetDelay(delays) ==
    MaxOf({delays[o] : o \in {h \in DOMAIN delays : delays[h] # -1}}) * MsPerSecond

SuspendedCondition_noParent ==
    \/ \E o \in Owners : sPreds[o] = "true"
    \/ PendingCount > 0

\* `suspended` of the $effect: hasPendingState || hasPendingTask || parentSuspended
SuspendedCondition ==
    \/ \E o \in Owners : sPreds[o] = "true"
    \/ PendingCount > 0
    \/ sParent = "suspended"

EffectSkips_never == FALSE

\* if (final && this._hasRevealed) return;
EffectSkips == sFinal /\ sHasRevealed

\* this._options.final && this._hasRevealed: _suspendTasks registers nothing
TasksIgnored == sFinal /\ sHasRevealed

\* The state after construction: the options register a delay (-1: none),
\* tasks and a predicate or not; the $effect has not run yet.
SuspenseBoot(final, parent, delay, tasks, pred, trace) ==
    /\ sFinal = final
    /\ sParent = parent
    /\ sPending = [o \in Owners |-> IF o = 0 THEN tasks ELSE 0]
    /\ sPreds = [o \in Owners |-> IF o = 0 THEN pred ELSE "none"]
    /\ sDelays = [o \in Owners |-> IF o = 0 THEN delay ELSE -1]
    /\ sAlive = [c \in Comps |-> TRUE]
    /\ sSuspended = TRUE
    /\ sTotal = tasks
    /\ sHasRevealed = FALSE
    /\ sTimer = -1
    /\ sDirty = TRUE
    /\ sEv = "none"
    /\ sTrace = trace
    /\ sNow = 0
    /\ sSettledAt = -1
    /\ sRegDelays = IF trace /\ delay # -1 THEN {delay} ELSE {}
    /\ sRejected = 0

\* A boundary the specifications of the other subsystems leave alone.
SuspenseQuiet == SuspenseBoot(FALSE, "none", -1, 0, "none", FALSE)

\* A boundary after construction, final or not, with a parent or not.  Its
\* options register nothing: every task, predicate and delay comes from a
\* component, which may register before the effect first runs and need never
\* be destroyed.
SuspenseInit ==
    \E final \in BOOLEAN, parent \in {"none", "suspended", "revealed"} :
        SuspenseBoot(final, parent, -1, 0, "none", FALSE)

\* A boundary with tasks and a delay, no predicate and no parent, its clock recorded.
SuspenseTimedInit ==
    \E final \in BOOLEAN, delay \in DelayValues, n \in 1..NTasks :
        SuspenseBoot(final, "none", delay, n, "none", TRUE)

\* A boundary without tasks, predicate and parent, with or without a delay
\* option, its clock recorded.
SuspenseIdleInit ==
    \E final \in BOOLEAN, delay \in {-1} \cup DelayValues :
        SuspenseBoot(final, "none", delay, 0, "none", TRUE)

\* the parts of the boundary's state most steps leave unchanged
sConfig == <<sFinal, sTrace>>
sClock == <<sNow, sSettledAt, sRejected>>

\* ComponentSuspense.suspendTasks(tasks) of component c, with n new promises:
\* _suspendTasks
SSuspendTasks(c, n) ==
    /\ sAlive[c]
    /\ n > 0
    /\ IF TasksIgnored
       THEN UNCHANGED <<sPending, sTotal, sDirty>>
       ELSE /\ PendingCount + n <= NTasks
            /\ (IF sSuspended THEN sTotal ELSE 0) + n <= MaxTotal
            /\ sTotal' = (IF sSuspended THEN sTotal ELSE 0) + n
            /\ sPending' = [sPending EXCEPT ![c] = @ + n]
            /\ sDirty' = TRUE
    /\ sEv' = "none"
    /\ UNCHANGED <<sConfig, sClock, sParent, sPreds, sDelays, sAlive, sSuspended,
                   sHasRevealed, sTimer, sRegDelays>>
    /\ UNCHANGED notSuspense

\* how a promise settles
Settlements == {"fulfilled", "rejected"}

Unsuspends_then(how) == how = "fulfilled"

\* task.finally(() => this._unsuspendTask(task, componentTasks)): the callback
\* runs however the task settles
Unsuspends(how) == how \in Settlements

\* a pending task of owner o settles: task.finally -> _unsuspendTask
SSettle(o, how) ==
    /\ sPending[o] > 0
    /\ sPending' = [sPending EXCEPT ![o] = IF Unsuspends(how) THEN @ - 1 ELSE @]
    /\ sDirty' = TRUE
    /\ sEv' = "none"
    /\ sSettledAt' = IF sTrace /\ PendingCount = 1 THEN sNow ELSE sSettledAt
    /\ sRejected' = IF sTrace /\ how = "rejected" THEN sRejected + 1 ELSE sRejected
    /\ UNCHANGED <<sConfig, sNow, sParent, sPreds, sDelays, sAlive, sSuspended, sTotal,
                   sHasRevealed, sTimer, sRegDelays>>
    /\ UNCHANGED notSuspense

\* ComponentSuspense.suspendState(state) of component c: _suspendState
SSuspendState(c, value) ==
    /\ sAlive[c]
    /\ sPreds[c] = "none"
    /\ sPreds' = [sPreds EXCEPT ![c] = IF value THEN "true" ELSE "false"]
    /\ sDirty' = TRUE
    /\ sEv' = "none"
    /\ UNCHANGED <<sConfig, sClock, sParent, sPending, sDelays, sAlive, sSuspended, sTotal,
                   sHasRevealed, sTimer, sRegDelays>>
    /\ UNCHANGED notSuspense

\* the state the registered predicate of owner o reads changes
SPredicateChanges(o) ==
    /\ sPreds[o] # "none"
    /\ sPreds' = [sPreds EXCEPT ![o] = IF @ = "true" THEN "false" ELSE "true"]
    /\ sDirty' = TRUE
    /\ sEv' = "none"
    /\ UNCHANGED <<sConfig, sClock, sParent, sPending, sDelays, sAlive, sSuspended, sTotal,
                   sHasRevealed, sTimer, sRegDelays>>
    /\ UNCHANGED notSuspense

\* ComponentSuspense.suspendDelay(delay) of component c
SSuspendDelay(c, delay) ==
    /\ sAlive[c]
    /\ sDelays[c] # delay
    /\ sDelays' = [sDelays EXCEPT ![c] = delay]
    /\ sRegDelays' = IF sTrace THEN sRegDelays \cup {delay} ELSE sRegDelays
    /\ sDirty' = TRUE
    /\ sEv' = "none"
    /\ UNCHANGED <<sConfig, sClock, sParent, sPending, sPreds, sAlive, sSuspended, sTotal,
                   sHasRevealed, sTimer>>
    /\ UNCHANGED notSuspense

\* the one suspendDelay(delay) call of component c, made while the component
\* is initialised, before the $effect of the boundary has first run
SSuspendDelayEarly(c, delay) ==
    /\ sDelays[c] = -1
    /\ sTimer = -1
    /\ ~sHasRevealed
    /\ sNow = 0
    /\ SSuspendDelay(c, delay)

\* the onDestroy callback of SuspenseContext.extend for component c
SDestroy(c) ==
    /\ sAlive[c]
    /\ sAlive' = [sAlive EXCEPT ![c] = FALSE]
    /\ sPending' = [sPending EXCEPT ![c] = 0]
    /\ sPreds' = [sPreds EXCEPT ![c] = "none"]
    /\ sDelays' = [sDelays EXCEPT ![c] = -1]
    /\ sDirty' = TRUE
    /\ sEv' = "none"
    /\ UNCHANGED <<sConfig, sClock, sParent, sSuspended, sTotal, sHasRevealed, sTimer,
                   sRegDelays>>
    /\ UNCHANGED notSuspense

\* a new component obtains a ComponentSuspense handle (useSuspense)
SMount(c) ==
    /\ ~sAlive[c]
    /\ sAlive' = [sAlive EXCEPT ![c] = TRUE]
    /\ sEv' = "none"
    /\ UNCHANGED <<sConfig, sClock, sParent, sPending, sPreds, sDelays, sSuspended, sTotal,
                   sHasRevealed, sTimer, sDirty, sRegDelays>>
    /\ UNCHANGED notSuspense

\* the parent / dependency boundary suspends or reveals
SParentChanges ==
    /\ sParent # "none"
    /\ sParent' = IF sParent = "suspended" THEN "revealed" ELSE "suspended"
    /\ sDirty' = TRUE
    /\ sEv' = "none"
    /\ UNCHANGED <<sConfig, sClock, sPending, sPreds, sDelays, sAlive, sSuspended, sTotal,
                   sHasRevealed, sTimer, sRegDelays>>
    /\ UNCHANGED notSuspense

\* the $effect of _init runs
SEffect ==
    /\ sDirty
    /\ IF EffectSkips \/ sSuspended = SuspendedCondition
       THEN \* if (final && this._hasRevealed) return;  if (prev === suspended) return;
            /\ sDirty' = FALSE
            /\ sEv' = "none"
            /\ UNCHANGED <<sSuspended, sTimer>>
       ELSE IF SuspendedCondition
       THEN \* clearTimeout; this._suspended = true; this.onSuspend.dispatch()
            /\ sTimer' = -1
            /\ sSuspended' = TRUE
            /\ sEv' = "suspend"
            /\ sDirty' = TRUE
       ELSE \* clearTimeout; this._timeoutId = setTimeout(..., this._getDelay())
            /\ sTimer' = GetDelay(sDelays)
            /\ sEv' = "none"
            /\ sDirty' = FALSE
            /\ UNCHANGED sSuspended
    /\ UNCHANGED <<sConfig, sClock, sParent, sPending, sPreds, sDelays, sAlive, sTotal,
                   sHasRevealed, sRegDelays>>
    /\ UNCHANGED notSuspense

\* the callback of the timeout runs
STimerFires ==
    /\ sTimer = 0
    /\ ~sDirty
    /\ sTimer' = -1
    /\ sSuspended' = FALSE
    /\ sHasRevealed' = TRUE
    /\ sDelays' = [o \in Owners |-> -1]
    /\ sEv' = "reveal"
    /\ sDirty' = TRUE
    /\ UNCHANGED <<sConfig, sClock, sParent, sPending, sPreds, sAlive, sTotal, sRegDelays>>
    /\ UNCHANGED notSuspense

\* time passes: no scheduled effect is left waiting, and no due timeout is
\* skipped.  With the clock recorded time advances by at most Quantum, otherwise
\* it advances until the pending timeout is due.
STick ==
    /\ ~sDirty
    /\ sTimer # 0
    /\ sTrace \/ sTimer > 0
    /\ LET dt == IF sTimer > 0 THEN (IF sTrace THEN Min(Quantum, sTimer) ELSE sTimer)
                 ELSE Quantum
       IN /\ sTimer' = IF sTimer > 0 THEN sTimer - dt ELSE sTimer
          /\ sTrace => sNow + dt <= MaxTime
          /\ sNow' = IF sTrace THEN sNow + dt ELSE sNow
    /\ sEv' = "none"
    /\ UNCHANGED <<sConfig, sSettledAt, sRejected, sParent, sPending, sPreds, sDelays,
                   sAlive, sSuspended, sTotal, sHasRevealed, sDirty, sRegDelays>>
    /\ UNCHANGED notSuspense

SuspenseNext ==
    \/ \E c \in Comps, n \in 1..NTasks : SSuspendTasks(c, n)
    \/ \E o \in Owners, how \in Settlements : SSettle(o, how)
    \/ \E c \in Comps, v \in BOOLEAN : SSuspendState(c, v)
    \/ \E o \in Owners : SPredicateChanges(o)
    \/ \E c \in Comps, d \in DelayValues : SSuspendDelay(c, d)
    \/ \E c \in Comps : SDestroy(c)
    \/ \E c \in Comps : SMount(c)
    \/ SParentChanges
    \/ SEffect
    \/ STimerFires
    \/ STick

\* The scenario of a boundary configured with tasks and a delay: the tasks
\* settle, time passes, the effect and the timeout run.
SuspenseTimedNext ==
    \/ \E o \in Owners, how \in Settlements : SSettle(o, how)
    \/ SEffect
    \/ STimerFires
    \/ STick

\* The scenario of a boundary that has nothing to wait for: components
\* register their delays as they are initialised, then time passes, the effect
\* and the timeout run.
SuspenseIdleNext ==
    \/ \E c \in Comps, d \in DelayValues : SSuspendDelayEarly(c, d)
    \/ SEffect
    \/ STimerFires
    \/ STick

-----------------------------------------------------------------------------
(***************************************************************************)
(* SuspenseContext.extend: component-scoped task registration, with the    *)
(* identity of the promises (the same promise may be handed to the         *)
(* boundary by several components)                                         *)
(***************************************************************************)

\* Number of distinct promises.
NPromises == 2
\* Number of components holding a ComponentSuspense of the same boundary.
NScoped == 2

Promises == 1..NPromises
\* the predicate functions handed to suspendState: one, shared by the components
StateFns == {1}
Scoped == 1..NScoped

\* a boundary that is not final, with the handles extend returned to the
\* components: nothing registered yet
ScopeInit ==
    /\ kPendingTasks = {}
    /\ kComponentTasks = [c \in Scoped |-> {}]
    /\ kPendingStates = {}
    /\ kComponentStates = [c \in Scoped |-> {}]
    /\ kAlive = [c \in Scoped |-> TRUE]
    /\ kSettled = {}

\* hasPendingTask of the $effect: this._pendingTasks.size > 0
HasPendingTask == kPendingTasks # {}

\* ComponentSuspense.suspendTasks(p) of component c, p a promise that has not
\* settled: componentTasks.add(task); this._pendingTasks.add(task)
KSuspendTasks(c, p) ==
    /\ kAlive[c]
    /\ p \notin kSettled
    /\ p \notin kComponentTasks[c]
    /\ kComponentTasks' = [kComponentTasks EXCEPT ![c] = @ \cup {p}]
    /\ kPendingTasks' = kPendingTasks \cup {p}
    /\ UNCHANGED <<kPendingStates, kComponentStates, kAlive, kSettled>>
    /\ UNCHANGED notScope

\* ComponentSuspense.suspendState(f) of component c: _suspendState
KSuspendState(c, f) ==
    /\ kAlive[c]
    /\ f \notin kComponentStates[c]
    /\ kComponentStates' = [kComponentStates EXCEPT ![c] = @ \cup {f}]
    /\ kPendingStates' = kPendingStates \cup {f}
    /\ UNCHANGED <<kPendingTasks, kComponentTasks, kAlive, kSettled>>
    /\ UNCHANGED notScope

\* promise p settles: every task.finally callback registered on it runs
\* _unsuspendTask(task, componentTasks)
KSettle(p) ==
    /\ p \notin kSettled
    /\ \E c \in Scoped : p \in kComponentTasks[c]
    /\ kComponentTasks' = [c \in Scoped |-> kComponentTasks[c] \ {p}]
    /\ kPendingTasks' = kPendingTasks \ {p}
    /\ kSettled' = kSettled \cup {p}
    /\ UNCHANGED <<kPendingStates, kComponentStates, kAlive>>
    /\ UNCHANGED notScope

\* the onDestroy callback of extend for component c: _unsuspendTask(task,
\* componentTasks) for every task of componentTasks, _unsuspendState(state,
\* componentStates) for every predicate of componentStates
KDestroy(c) ==
    /\ kAlive[c]
    /\ kAlive' = [kAlive EXCEPT ![c] = FALSE]
    /\ kPendingTasks' = kPendingTasks \ kComponentTasks[c]
    /\ kComponentTasks' = [kComponentTasks EXCEPT ![c] = {}]
    /\ kPendingStates' = kPendingStates \ kComponentStates[c]
    /\ kComponentStates' = [kComponentStates EXCEPT ![c] = {}]
    /\ UNCHANGED kSettled
    /\ UNCHANGED notScope

\* a new component takes the place of a destroyed one and calls extend
KExtend(c) ==
    /\ ~kAlive[c]
    /\ kAlive' = [kAlive EXCEPT ![c] = TRUE]
    /\ UNCHANGED <<kPendingTasks, kComponentTasks, kPendingStates, kComponentStates,
                   kSettled>>
    /\ UNCHANGED notScope

\* a settled promise nothing refers to any more is forgotten; its identity
\* serves for a promise created later
KForget(p) ==
    /\ p \in kSettled
    /\ kSettled' = kSettled \ {p}
    /\ UNCHANGED <<kPendingTasks, kComponentTasks, kPendingStates, kComponentStates,
                   kAlive>>
    /\ UNCHANGED notScope

ScopeNext ==
    \/ \E c \in Scoped, p \in Promises : KSuspendTasks(c, p)
    \/ \E c \in Scoped, f \in StateFns : KSuspendState(c, f)
    \/ \E p \in Promises : KSettle(p)
    \/ \E c \in Scoped : KDestroy(c)
    \/ \E c \in Scoped : KExtend(c)
    \/ \E p \in Promises : KForget(p)

-----------------------------------------------------------------------------
(***************************************************************************)
(* TweenTransition                                                         *)
(***************************************************************************)

\* The progress of an animation is one of 0, 1/PMax, ..., 1.
PMax == 3

Progresses == 0..PMax
\* The instance refers to at most one animation per direction, the one of
\* _records[direction]; _animation is one of the two.  An animation object is
\* named after its direction: 1 for "in", 2 for "out".
AnimIds == 1..Cardinality(Directions2)
AnimId(direction) == IF direction = "in" THEN 1 ELSE 2
Strategies == {"prevent", "invalidate", "add", "restart"}

\* An optional value is the empty set (undefined) or a singleton.
Unset == {}
Coalesce(a, b, c) ==
    IF a # {} THEN CHOOSE x \in a : TRUE
    ELSE IF b # {} THEN CHOOSE x \in b : TRUE
    ELSE c

\* the element a transition is attached to: none, or one with these data
\* attributes (its own or its closest ancestor's), in the viewport or not
NoAttachment ==
    [present |-> FALSE, dataInstant |-> "null", dataBypass |-> "null", visible |-> FALSE]

\* an animation object: "running", or "stopped" (complete, killed or reverted)
NoAnim == [progress |-> 0, state |-> "none"]
\* a record of _records: the animation, ratio and type, and of its params the
\* resolved element and data.  Element and data of a record reach only the
\* idle() of the invalidate policy, which is ignored and leaves nothing of
\* them in the instance: they are kept where tWatch is set.
NoRecord ==
    [animation |-> 0, ratio |-> 0, type |-> "none", attach |-> NoAttachment, data |-> Unset]
\* TweenTransitionParams without data, as defaults of one type of transition
\* (options.intro, options.outro, options.idle): every parameter is optional
NoDefaults ==
    [attach |-> Unset, dispatchEvents |-> Unset, overlapStrategy |-> Unset,
     overwrite |-> Unset, ignore |-> Unset, instant |-> Unset, inViewport |-> Unset,
     data |-> Unset]
Types == {"idle", "intro", "outro"}
\* TweenTransitionOptions: the instance-wide defaults, bypass and the defaults
\* of every type
NoOptions ==
    [attach |-> Unset, dispatchEvents |-> Unset, overlapStrategy |-> Unset,
     overwrite |-> Unset, ignore |-> Unset, instant |-> Unset, inViewport |-> Unset,
     data |-> Unset, bypass |-> Unset, idle |-> NoDefaults, intro |-> NoDefaults, outro |-> NoDefaults]
\* a step: the operation, whether its overlap policy is the default one, its
\* resolved ignore, the ratio it passed to the transition function (-1 if it
\* did not call it) and whether it returned an animation
\* and, where tTrace is set: whether an animation of the direction was active
\* when _executeTransition would start, the call, the resolved parameters, and
\* the ratio the queued idle() passed to the transition function when
\* _handleIdle ran it in this step (-1 if it ran none), and what
\* _executeTransition did, in order
NoCall ==
    [op |-> "none", defaulted |-> FALSE, ignore |-> FALSE, passed |-> -1, ret |-> FALSE,
     same |-> FALSE, given |-> <<>>, rp |-> <<>>, idled |-> -1, events |-> <<>>]

Attachments ==
    {NoAttachment,
     [present |-> TRUE, dataInstant |-> "null", dataBypass |-> "null", visible |-> FALSE],
     [present |-> TRUE, dataInstant |-> "in", dataBypass |-> "out", visible |-> TRUE]}

\* an element without data attributes, in the viewport
Shown == [present |-> TRUE, dataInstant |-> "null", dataBypass |-> "null", visible |-> TRUE]
\* the elements, numbered
ElementId(a) == IF a = Shown THEN 3 ELSE IF a.dataInstant = "null" THEN 1 ELSE 2
ElementIds == {ElementId(a) : a \in {b \in Attachments : b.present} \cup {Shown}}

NoParams ==
    [dispatchEvents |-> Unset, overlapStrategy |-> Unset, overwrite |-> Unset,
     ignore |-> Unset, instant |-> Unset, inViewport |-> Unset, data |-> Unset]

\* A call of intro() / outro() / idle(): its parameters, the element it is
\* attached to and whether the transition function returns an animation.  The
\* plain call has no parameter and no element and makes an animation.  The
\* calls explored are the plain call under every overlap policy, the calls
\* that deviate from the plain call in one way, and the calls that keep the
\* running animation (overwrite: false) under a policy that goes on.
PlainCall == [params |-> NoParams, attach |-> NoAttachment, made |-> TRUE]
Deviations ==
    {PlainCall,
     [PlainCall EXCEPT !.params.overwrite = {FALSE}],
     [PlainCall EXCEPT !.params.ignore = {TRUE}],
     [PlainCall EXCEPT !.params.instant = {TRUE}],
     [PlainCall EXCEPT !.made = FALSE]}
        \cup {[PlainCall EXCEPT !.attach = a] : a \in Attachments}
Calls ==
    Deviations
        \cup {[PlainCall EXCEPT !.params.overlapStrategy = {x}] : x \in Strategies}
        \cup {[PlainCall EXCEPT !.params.overlapStrategy = {x}, !.params.overwrite = {FALSE}] :
                x \in Strategies \ {"prevent"}}
\* the calls explored where the resolution of parameters is recorded: the
\* plain call and the calls that give one parameter
ResolveCalls ==
    {PlainCall,
     [PlainCall EXCEPT !.params.overlapStrategy = {"add"}],
     [PlainCall EXCEPT !.params.dispatchEvents = {TRUE}],
     [PlainCall EXCEPT !.params.overwrite = {FALSE}],
     [PlainCall EXCEPT !.params.ignore = {TRUE}]}
        \cup {[PlainCall EXCEPT !.params.instant = {v}] : v \in BOOLEAN}
        \cup {[PlainCall EXCEPT !.params.inViewport = {v}] : v \in BOOLEAN}
        \cup {[PlainCall EXCEPT !.attach = a] : a \in Attachments}
\* the calls explored where the skip rule is recorded: a flag the rule reads
\* given or not on every element, and the overlap policies that go on
SkipCalls ==
    {[PlainCall EXCEPT !.params.inViewport = v, !.attach = a] :
        v \in {Unset, {FALSE}, {TRUE}}, a \in Attachments}
        \cup {[PlainCall EXCEPT !.params.instant = {v}, !.attach = a] :
                v \in BOOLEAN, a \in Attachments}
        \cup {[PlainCall EXCEPT !.params.overlapStrategy = {x}] : x \in {"add", "restart"}}
\* the calls of idle(), which has no overlap policy
IdleCalls == {c \in Deviations : c.params.overwrite = Unset /\ c.params.instant = Unset}

\* resolveAttach(params.attach ?? options.attach): the element the call
\* names, else the one the options name, else none
ResolveAttach(attach, options) ==
    IF attach.present THEN attach ELSE Coalesce(options.attach, Unset, NoAttachment)

\* data: { ...options.data, ...params.data }, an object of one key: the empty
\* set is the empty object
MergeData(under, over) == IF over # Unset THEN over ELSE under

ResolveParams_add(direction, params, options, attach) ==
    [instant |-> ResolveDataFlag(ResolveAttach(attach, options).dataInstant, direction,
                                 Coalesce(params.instant, options.instant, FALSE)),
     bypass |-> ResolveDataFlag(ResolveAttach(attach, options).dataBypass, direction,
                                Coalesce(Unset, options.bypass, FALSE)),
     ignore |-> Coalesce(params.ignore, options.ignore, FALSE),
     inViewport |-> Coalesce(params.inViewport, options.inViewport, FALSE),
     overlapStrategy |-> Coalesce(params.overlapStrategy, options.overlapStrategy, "add"),
     overwrite |-> Coalesce(params.overwrite, options.overwrite, TRUE),
     dispatchEvents |-> Coalesce(params.dispatchEvents, options.dispatchEvents, FALSE),
     data |-> MergeData(options.data, params.data),
     attach |-> ResolveAttach(attach, options),
     hasAttach |-> ResolveAttach(attach, options).present,
     visible |-> ResolveAttach(attach, options).visible]

\* resolveParams; the attributes of no element are all "null"
ResolveParams(direction, params, options, attach) ==
    [instant |-> ResolveDataFlag(ResolveAttach(attach, options).dataInstant, direction,
                                 Coalesce(params.instant, options.instant, FALSE)),
     bypass |-> ResolveDataFlag(ResolveAttach(attach, options).dataBypass, direction,
                                Coalesce(Unset, options.bypass, FALSE)),
     ignore |-> Coalesce(params.ignore, options.ignore, FALSE),
     inViewport |-> Coalesce(params.inViewport, options.inViewport, FALSE),
     overlapStrategy |-> Coalesce(params.overlapStrategy, options.overlapStrategy, "prevent"),
     overwrite |-> Coalesce(params.overwrite, options.overwrite, TRUE),
     dispatchEvents |-> Coalesce(params.dispatchEvents, options.dispatchEvents, FALSE),
     data |-> MergeData(options.data, params.data),
     attach |-> ResolveAttach(attach, options),
     hasAttach |-> ResolveAttach(attach, options).present,
     visible |-> ResolveAttach(attach, options).visible]

Skips_never(direction, rp) == FALSE

\* shouldSkipTransition(direction, params) on resolved parameters
Skips(direction, rp) ==
    ShouldSkipTransition(direction, rp.bypass, rp.instant, rp.hasAttach, rp.inViewport,
                         rp.visible)

Opposite(direction) == IF direction = "in" THEN "out" ELSE "in"

\* animation.kill(): the animation stops where it is
Kill(anims, id) == [anims EXCEPT ![id].state = "stopped"]
\* animation.revert(): the animation stops, back at its start
Revert(anims, id) == [anims EXCEPT ![id] = [progress |-> 0, state |-> "stopped"]]
\* this._context.revert(): every animation created in the context is reverted
RevertAll(anims) ==
    [id \in AnimIds |-> IF anims[id].state = "none" THEN anims[id]
                        ELSE [progress |-> 0, state |-> "stopped"]]

\* the instance as a record, for the operators below
TweenState ==
    [anims |-> tAnims, animation |-> tAnimation, direction |-> tDirection, ratio |-> tRatio,
     records |-> tRecords, passed |-> -1, ret |-> 0, events |-> <<>>]

RatioOnReverse_zero(progress) == 0

\* ratio = 1 - progress
RatioOnReverse(progress) == PMax - progress

\* one thing _executeTransition does: "read" (this._animation.progress(), v),
\* "idle" (the idle() of the invalidate policy: its direction, element and
\* data, and in inner what it did), "revertAll" (this._context.revert()),
\* "revert" and "kill" (of this._animation), "call" (the transition function,
\* with ratio v), "progress" (animation.progress(v)), "record" (the
\* assignment of this._records[direction]), "pointer" (_handlePointerEvents),
\* "made" (the transition function returned an animation) and "dispatch"
\* (_dispatchEvents)
Did(e, v, d, a) == [e |-> e, v |-> v, d |-> d, a |-> a, data |-> Unset, inner |-> <<>>]

Overwrites_always(has, overwrite) == has

\* if (this._animation) { ... if (overwrite) this._animation.kill() }
Overwrites(has, overwrite) == has /\ overwrite

Resumes_never(same, policy) == FALSE

\* resume = progress, under the invalidate policy
Resumes(same, policy) == same /\ policy = "invalidate"

RECURSIVE ExecuteTransition(_, _, _, _, _)

\* idle(params) once idle transitions are allowed: params are a direction, an
\* optional ignore, an element and data; made is whether the transition
\* function returns an animation
Idle(st, direction, ignore, options, attach, data, made) ==
    LET params == [NoParams EXCEPT !.overlapStrategy = {"add"}, !.ignore = ignore,
                                   !.instant = {TRUE}, !.data = data]
    IN CHOOSE result \in
            {ExecuteTransition(reverted, direction, rp, TRUE, made) :
                reverted \in {[st EXCEPT !.anims = RevertAll(@),
                                         !.events = Append(@, Did("revertAll", 0, "none",
                                                                    NoAttachment))]},
                rp \in {ResolveParams("none", params, o, attach) @@ [options |-> o] :
                            o \in {options}}} : TRUE

\* _executeTransition, l. 950-966: what the overlap policy does when the
\* active animation has the direction asked for; read is what was done so far.
\* The idle() of the invalidate policy is given the element and the data of
\* the last record of the opposite direction.
Overlap(st, direction, rp, made, read) ==
    LET same == st.animation # 0 /\ st.direction = direction
        policy == rp.overlapStrategy
        last == st.records[Opposite(direction)]
    IN IF same /\ policy = "invalidate"
       THEN CHOOSE result \in
                {[inner EXCEPT !.ret = 0, !.passed = -1,
                        !.events = Append(read,
                            [Did("idle", 0, Opposite(direction), last.attach)
                                EXCEPT !.data = last.data, !.inner = inner.events])] :
                    inner \in {Idle([st EXCEPT !.events = <<>>], Opposite(direction), {TRUE},
                                    rp.options, last.attach, last.data, made)}} : TRUE
       ELSE IF same /\ policy = "restart"
       THEN [st EXCEPT !.anims = Revert(@, st.animation),
                       !.events = Append(read, Did("revert", 0, "none", NoAttachment))]
       ELSE [st EXCEPT !.events = read]

\* _executeTransition, l. 971-973: st1 is the instance after the overlap policy
Overwrite(st, st1, rp) ==
    IF Overwrites(st.animation # 0, rp.overwrite)
    THEN [st1 EXCEPT !.anims = Kill(@, st.animation),
                     !.events = Append(@, Did("kill", 0, "none", NoAttachment))]
    ELSE st1

Retains_always(ignore) == TRUE

\* if (!ignore) { ... }: the instance records and retains the transition
Retains(ignore) == ~ignore

\* _executeTransition, l. 976-1015: st2 is the instance after the overwrite.
\* An animation made with ignore is not retained by the instance: it is
\* returned as -1.
Conclude(st, st2, direction, rp, idle, made) ==
    LET has == st.animation # 0
        progress == IF has THEN st.anims[st.animation].progress ELSE 0
        same == has /\ st.direction = direction
        policy == rp.overlapStrategy
        ratio == IF ~has THEN 0
                 ELSE IF same THEN (IF policy = "add" THEN progress ELSE 0)
                 ELSE RatioOnReverse(progress)
        resume == IF Resumes(same, policy) THEN progress ELSE -1
        id == AnimId(direction)
        start == IF rp.instant THEN PMax ELSE IF resume # -1 THEN resume ELSE 0
        animation == [progress |-> start,
                      state |-> IF start = PMax THEN "stopped" ELSE "running"]
        type == IF idle THEN "idle" ELSE IF direction = "in" THEN "intro" ELSE "outro"
        called == <<[Did("call", ratio, direction, rp.attach) EXCEPT !.data = rp.data]>>
                    \o (IF made THEN <<Did("made", 0, direction, NoAttachment)>> ELSE <<>>)
        set == IF made /\ (rp.instant \/ resume # -1)
               THEN <<Did("progress", start, "none", NoAttachment)>> ELSE <<>>
        recorded == <<Did("record", ratio, direction, rp.attach)>>
        pointer == IF rp.attach.present
                   THEN <<Did("pointer", 0, direction, rp.attach)>>
                        \o (IF rp.dispatchEvents /\ made
                            THEN <<Did("dispatch", 0, direction, rp.attach)>> ELSE <<>>)
                   ELSE <<>>
    IN IF ~Retains(rp.ignore)
       THEN [st2 EXCEPT !.ret = IF made THEN -1 ELSE 0, !.passed = ratio,
                        !.events = @ \o called \o set]
       ELSE [st2 EXCEPT
               !.anims = IF made THEN [@ EXCEPT ![id] = animation] ELSE @,
               !.records[direction] =
                    [animation |-> IF made THEN id ELSE 0, ratio |-> ratio, type |-> type,
                     attach |-> IF tWatch THEN rp.attach ELSE NoAttachment,
                     data |-> IF tWatch THEN rp.data ELSE Unset],
               !.animation = IF made THEN id ELSE 0,
               !.direction = direction,
               !.ratio = ratio,
               !.ret = IF made THEN id ELSE 0,
               !.passed = ratio,
               !.events = @ \o called \o set \o recorded \o pointer]

\* _executeTransition(direction, params, idle); options are those of the
\* idle() the invalidate policy calls.
ExecuteTransition(st, direction, rp, idle, made) ==
    LET has == st.animation # 0
        read == IF has
                THEN Append(st.events, Did("read", st.anims[st.animation].progress, "none",
                                           NoAttachment))
                ELSE st.events
    IN IF has /\ st.direction = direction /\ rp.overlapStrategy = "prevent"
       THEN [st EXCEPT !.ret = 0, !.passed = -1, !.events = read]
       ELSE CHOOSE result \in
                {Conclude(st, st2, direction, rp, idle, made) :
                    st2 \in {Overwrite(st, st1, rp) :
                                st1 \in {Overlap(st, direction, rp, made, read)}}} : TRUE

\* the animation objects the instance no longer refers to are forgotten
Retained(st) ==
    [id \in AnimIds |->
        IF id = st.animation \/ \E d \in Directions2 : st.records[d].animation = id
        THEN st.anims[id] ELSE NoAnim]

HandlePointerEvents_never(pointer, attach, direction) == pointer \ {ElementId(attach)}

\* _handlePointerEvents: gsap.set(attach, direction === 'out'
\*     ? { pointerEvents: 'none' } : { clearProps: 'pointerEvents' })
HandlePointerEvents(pointer, attach, direction) ==
    IF direction = "out" THEN pointer \cup {ElementId(attach)}
    ELSE pointer \ {ElementId(attach)}

\* the pointer-events styles after what a step did
RECURSIVE Pointer(_, _)
Pointer(pointer, events) ==
    IF events = <<>> THEN pointer
    ELSE Pointer(IF Head(events).e = "pointer"
                 THEN HandlePointerEvents(pointer, Head(events).a, Head(events).d)
                 ELSE pointer,
                 Tail(events))

\* the last recorded direction of every element after what a step did
RECURSIVE Executed(_, _)
Executed(executed, events) ==
    IF events = <<>> THEN executed
    ELSE Executed(IF Head(events).e = "record" /\ Head(events).a.present
                  THEN [executed EXCEPT ![ElementId(Head(events).a)] = Head(events).d]
                  ELSE executed,
                  Tail(events))

SetTween(st) ==
    /\ tAnims' = Retained(st)
    /\ tAnimation' = st.animation
    /\ tDirection' = st.direction
    /\ tRatio' = st.ratio
    /\ tRecords' = st.records
    /\ tPointer' = IF tWatch THEN Pointer(tPointer, st.events) ELSE tPointer
    /\ tExecuted' = IF tWatch THEN Executed(tExecuted, st.events) ELSE tExecuted

\* the instance after construction with the given options
TweenStart(trace, watch, options) ==
    /\ tOptions = options
    /\ tTrace = trace
    /\ tWatch = watch
    /\ tAnims = [id \in AnimIds |-> NoAnim]
    /\ tAnimation = 0
    /\ tDirection = "none"
    /\ tRatio = 0
    /\ tRecords = [d \in Directions2 |-> NoRecord]
    /\ tQueuedIdle = {}
    /\ tAllowIdle = FALSE
    /\ tSeen = {}
    /\ tCall = NoCall
    /\ tPointer = {}
    /\ tExecuted = [a \in ElementIds |-> "none"]

TweenBoot(trace, options) == TweenStart(trace, FALSE, options)

\* new TweenTransition(transition)
TweenInit == TweenBoot(FALSE, NoOptions)

TweenQuiet == TweenInit

\* The options explored where the resolution of parameters is recorded: none,
\* bypass, and one parameter set instance-wide, for one type, or both ways with
\* different values.
Flags == {"dispatchEvents", "overwrite", "ignore", "instant", "inViewport"}
DirectionTypes == {"intro", "outro"}
Elements == {a \in Attachments : a.present}
OptionSets ==
    {NoOptions, [NoOptions EXCEPT !.bypass = {TRUE}]}
        \cup {[NoOptions EXCEPT ![k] = {v}] : k \in Flags, v \in BOOLEAN}
        \cup {[NoOptions EXCEPT ![t][k] = {v}] : t \in DirectionTypes, k \in Flags, v \in BOOLEAN}
        \cup {[NoOptions EXCEPT ![k] = {v}, !.intro[k] = {~v}, !.outro[k] = {~v}] :
                k \in Flags, v \in BOOLEAN}
        \cup {[NoOptions EXCEPT !.overlapStrategy = {"add"}],
              [NoOptions EXCEPT !.overlapStrategy = {"add"}, !.intro.overlapStrategy = {"restart"}],
              [NoOptions EXCEPT !.outro.overlapStrategy = {"invalidate"}]}
        \cup {[NoOptions EXCEPT !.attach = {a}] : a \in Elements}
        \cup {[NoOptions EXCEPT !.attach = {a}, ![t].attach = Elements \ {a}] :
                a \in Elements, t \in DirectionTypes}

\* new TweenTransition(transition, options)
TweenResolveInit == \E options \in OptionSets : TweenBoot(TRUE, options)

\* The options explored where the skip rule is recorded: the ones that set a
\* flag the rule reads.
SkipOptionSets ==
    {NoOptions, [NoOptions EXCEPT !.bypass = {TRUE}], [NoOptions EXCEPT !.instant = {TRUE}],
     [NoOptions EXCEPT !.intro.inViewport = {TRUE}]}

TweenSkipInit == \E options \in SkipOptionSets : TweenBoot(TRUE, options)

\* _resolveOptions(type): { ...this._options, ...this._options[type] }; a
\* parameter the defaults of the type leave out is not spread
ResolveOptions(type) ==
    [k \in DOMAIN tOptions |->
        IF k \in DOMAIN tOptions[type] /\ tOptions[type][k] # Unset
        THEN tOptions[type][k] ELSE tOptions[k]]

TypeOf(direction) == IF direction = "in" THEN "intro" ELSE "outro"

\* _handleIdle: the queued idle(), if any, runs
HandleIdle(attach, made) ==
    IF tQueuedIdle = {} THEN TweenState
    ELSE CHOOSE result \in
            {Idle(st, queued.direction, queued.ignore, ResolveOptions("idle"), attach, Unset,
                  made) :
                st \in {TweenState}, queued \in tQueuedIdle} : TRUE

\* what has run, once op has
Seen(op) == IF tTrace THEN tSeen \cup {op} ELSE tSeen

\* the ratio _handleIdle's idle() passed on, st being what _handleIdle left
Idled(st) == IF tTrace /\ tQueuedIdle # {} THEN st.passed ELSE -1

\* onMount(() => this._handleIdle()): the component mounts once.  Where the
\* history is not recorded, a mount after an intro() or outro() is left out: it
\* finds _allowIdle set and nothing queued, and changes nothing.
TMount(attach, made) ==
    /\ IF tTrace THEN "mount" \notin tSeen ELSE ~tAllowIdle
    /\ tAllowIdle' = TRUE
    /\ tQueuedIdle' = {}
    /\ \E st \in {HandleIdle(attach, made)} :
          /\ SetTween(st)
          /\ tCall' = [NoCall EXCEPT !.op = "mount", !.idled = Idled(st)]
    /\ tSeen' = Seen("mount")
    /\ UNCHANGED <<tOptions, tTrace, tWatch>>
    /\ UNCHANGED notTween

Defers_never(allowIdle) == FALSE

\* if (!this._allowIdle): idle() queues its parameters and returns null
Defers(allowIdle) == ~allowIdle

\* idle(params)
TIdle(direction, ignore, attach, made) ==
    /\ IF Defers(tAllowIdle)
       THEN /\ tQueuedIdle' = {[direction |-> direction, ignore |-> ignore]}
            /\ tCall' = [NoCall EXCEPT !.op = "idle"]
            /\ UNCHANGED <<tAnims, tAnimation, tDirection, tRatio, tRecords, tPointer,
                           tExecuted>>
       ELSE \E st0 \in {TweenState} :
            \E st \in {Idle(st0, direction, ignore, ResolveOptions("idle"), attach, Unset,
                             made)} :
               /\ SetTween(st)
               /\ tCall' = [NoCall EXCEPT !.op = "idle",
                              !.ignore = Coalesce(ignore, ResolveOptions("idle").ignore, FALSE),
                              !.passed = st.passed, !.ret = st.ret # 0,
                              !.events = IF tWatch THEN st.events ELSE <<>>]
               /\ UNCHANGED tQueuedIdle
    /\ UNCHANGED <<tOptions, tAllowIdle, tTrace, tSeen, tWatch>>
    /\ UNCHANGED notTween

\* the parameters intro() and outro() hand to resolveParams: params for intro,
\* { inViewport: true, ...params } for outro
Given(direction, params) ==
    IF direction = "out" /\ params.inViewport = Unset
    THEN [params EXCEPT !.inViewport = {TRUE}] ELSE params

\* intro(params) and outro(params): direction "in" and "out"
Transition(direction, params, attach, made, madeIdle) ==
    \E st0 \in {HandleIdle(attach, madeIdle)} :
    \E options \in {ResolveOptions(TypeOf(direction))} :
    \E rp \in {ResolveParams(direction, Given(direction, params), options, attach)} :
    LET skipped == Skips(direction, rp)
    IN \E resolved \in {rp @@ [options |-> ResolveOptions("idle")]} :
       \E st \in {IF skipped THEN st0
                  ELSE ExecuteTransition(st0, direction, resolved, FALSE, made)} :
       /\ tAllowIdle' = TRUE
       /\ tQueuedIdle' = {}
       /\ SetTween(st)
       /\ tCall' = [op |-> TypeOf(direction),
                    defaulted |-> params.overlapStrategy = Unset
                                    /\ options.overlapStrategy = Unset,
                    ignore |-> rp.ignore,
                    passed |-> IF skipped THEN -1 ELSE st.passed,
                    ret |-> ~skipped /\ st.ret # 0,
                    same |-> (tTrace \/ tWatch) /\ st0.animation # 0 /\ st0.direction = direction,
                    given |-> IF tTrace THEN [params |-> params, attach |-> attach]
                              ELSE <<>>,
                    rp |-> IF tTrace \/ tWatch THEN rp ELSE <<>>,
                    idled |-> Idled(st0),
                    events |-> IF tWatch /\ ~skipped
                               THEN SubSeq(st.events, Len(st0.events) + 1, Len(st.events))
                               ELSE <<>>]
       /\ tSeen' = Seen(TypeOf(direction))
       /\ UNCHANGED <<tOptions, tTrace, tWatch>>
       /\ UNCHANGED notTween

TIntro(params, attach, made, madeIdle) == Transition("in", params, attach, made, madeIdle)

TOutro(params, attach, made, madeIdle) == Transition("out", params, attach, made, madeIdle)

\* a running animation advances by 1 / PMax
TTick(id) ==
    /\ tAnims[id].state = "running"
    /\ tAnims' = [tAnims EXCEPT ![id] =
            [progress |-> @.progress + 1,
             state |-> IF @.progress + 1 = PMax THEN "stopped" ELSE "running"]]
    /\ tCall' = [NoCall EXCEPT !.op = "tick"]
    /\ UNCHANGED <<tOptions, tAnimation, tDirection, tRatio, tRecords, tQueuedIdle, tAllowIdle,
                   tTrace, tSeen, tWatch, tPointer, tExecuted>>
    /\ UNCHANGED notTween

\* whether the queued idle() makes an animation is an input only if one is queued
IdleOutcomes == IF tQueuedIdle = {} THEN {TRUE} ELSE BOOLEAN

TweenNext ==
    \/ \E c \in IdleCalls : TMount(c.attach, c.made)
    \/ \E direction \in Directions2, c \in IdleCalls :
          TIdle(direction, c.params.ignore, c.attach, c.made)
    \/ \E c \in Calls, madeIdle \in IdleOutcomes : TIntro(c.params, c.attach, c.made, madeIdle)
    \/ \E c \in Calls, madeIdle \in IdleOutcomes : TOutro(c.params, c.attach, c.made, madeIdle)
    \/ \E id \in AnimIds : TTick(id)

\* an instance whose history is recorded, from construction: the mount, idle(),
\* and the calls of intro() and outro() that deviate from the plain call in
\* one way, with no time passing in between
TweenIdleInit == TweenBoot(TRUE, NoOptions)

TweenIdleNext ==
    \/ \E c \in IdleCalls : TMount(c.attach, c.made)
    \/ \E direction \in Directions2, c \in IdleCalls :
          TIdle(direction, c.params.ignore, c.attach, c.made)
    \/ \E c \in Deviations, madeIdle \in IdleOutcomes :
          TIntro(c.params, c.attach, c.made, madeIdle)
    \/ \E c \in Deviations, madeIdle \in IdleOutcomes :
          TOutro(c.params, c.attach, c.made, madeIdle)

\* an instance whose elements are followed
TweenWatchInit == TweenStart(FALSE, TRUE, NoOptions)

\* the calls explored there, on one element: the overlap policies that go
\* on, the invalidate policy on an instant transition and on one whose
\* transition function returns no animation, a call with data and an ignored
\* call
WatchCalls ==
    {[PlainCall EXCEPT !.params.overlapStrategy = {x}, !.attach = Shown] :
        x \in Strategies \ {"prevent"}}
        \cup {[PlainCall EXCEPT !.params.overlapStrategy = {"invalidate"},
                                !.params.instant = {TRUE}, !.attach = Shown],
              [PlainCall EXCEPT !.params.overlapStrategy = {"invalidate"}, !.made = FALSE,
                                !.attach = Shown],
              [PlainCall EXCEPT !.params.overlapStrategy = {"add"}, !.params.data = {TRUE},
                                !.attach = Shown],
              [PlainCall EXCEPT !.params.overlapStrategy = {"add"}, !.params.ignore = {TRUE},
                                !.attach = Shown]}

TweenWatchNext ==
    \/ TMount(Shown, TRUE)
    \/ \E direction \in Directions2 : TIdle(direction, Unset, Shown, TRUE)
    \/ \E c \in WatchCalls : TIntro(c.params, c.attach, c.made, TRUE)
    \/ \E c \in WatchCalls : TOutro(c.params, c.attach, c.made, TRUE)
    \/ \E id \in AnimIds : TTick(id)

\* the calls explored where ignore is followed, on one element: a call that
\* dispatches events, under a policy that goes on, as it is and ignored; an
\* ignored call under invalidate; an ignored call whose transition function
\* returns no animation
IgnoreCalls ==
    {[PlainCall EXCEPT !.params.overlapStrategy = {"restart"},
                       !.params.dispatchEvents = {TRUE}, !.params.ignore = i,
                       !.attach = Shown] : i \in {Unset, {TRUE}}}
        \cup {[PlainCall EXCEPT !.params.overlapStrategy = {"invalidate"},
                                !.params.ignore = {TRUE}, !.attach = Shown],
              [PlainCall EXCEPT !.params.overlapStrategy = {"add"},
                                !.params.ignore = {TRUE}, !.made = FALSE, !.attach = Shown]}

TweenIgnoreNext ==
    \/ TMount(Shown, TRUE)
    \/ \E direction \in Directions2, ignore \in {Unset, {TRUE}} :
          TIdle(direction, ignore, Shown, TRUE)
    \/ \E c \in IgnoreCalls : TIntro(c.params, c.attach, c.made, TRUE)
    \/ \E c \in IgnoreCalls : TOutro(c.params, c.attach, c.made, TRUE)
    \/ \E id \in AnimIds : TTick(id)

\* the calls explored where what becomes of the previous animation is
\* followed: the plain call, and every overlap policy that goes on, with
\* overwrite left to its default and with overwrite: false
OverwriteCalls ==
    {[PlainCall EXCEPT !.params.overlapStrategy = {x}, !.params.overwrite = w] :
        x \in Strategies \ {"prevent"}, w \in {Unset, {FALSE}}}
        \cup {PlainCall}

\* an instance whose overwrite option is the default or false
TweenOverwriteInit ==
    \E options \in {NoOptions, [NoOptions EXCEPT !.overwrite = {FALSE}]} :
        TweenStart(FALSE, TRUE, options)

TweenOverwriteNext ==
    \/ TMount(NoAttachment, TRUE)
    \/ \E c \in OverwriteCalls : TIntro(c.params, c.attach, c.made, TRUE)
    \/ \E c \in OverwriteCalls : TOutro(c.params, c.attach, c.made, TRUE)
    \/ \E id \in AnimIds : TTick(id)

\* intro() and outro() on an instance nothing else is called on
TweenResolveNext ==
    \/ \E c \in ResolveCalls : TIntro(c.params, c.attach, c.made, TRUE)
    \/ \E c \in ResolveCalls : TOutro(c.params, c.attach, c.made, TRUE)

TweenSkipNext ==
    \/ \E c \in SkipCalls : TIntro(c.params, c.attach, c.made, TRUE)
    \/ \E c \in SkipCalls : TOutro(c.params, c.attach, c.made, TRUE)

-----------------------------------------------------------------------------
(***************************************************************************)
(* Hook                                                                    *)
(***************************************************************************)

\* Number of distinct listener callbacks (function references).
NListeners == 2
\* Total number of entry objects addListener may allocate in one behaviour.
MaxEntries == 2

Listeners == 1..NListeners
EntryIds == 1..MaxEntries
Priorities == {-1, 0, 1}

\* An entry object that has not been allocated yet.  spent (recorded where
\* hTrace is set): the cleanup the entry holds has been called.
NoEntry ==
    [listener |-> 0, disabled |-> FALSE, once |-> FALSE, priority |-> 0, cleanup |-> FALSE,
     spent |-> FALSE]

\* What the body of a listener does when it is invoked: nothing, a call of
\* removeListener(l) or a call of addListener(l, {priority}) on the hook.
BodyEffects ==
    [op : {"nop"}, l : {0}, priority : {0}, once : {FALSE}]
    \cup [op : {"remove"}, l : Listeners, priority : {0}, once : {FALSE}]
    \cup [op : {"add"}, l : Listeners, priority : Priorities, once : {FALSE}]

\* A listener body that does not touch the hook.
NopEffect == [op |-> "nop", l |-> 0, priority |-> 0, once |-> FALSE]

\* How the body of a listener ends: it returns nothing, returns a cleanup
\* function, or throws.
BodyOutcomes == {"void", "cleanup", "throw"}

\* How one execution of the try block of _run ends: as its body ends, or the
\* cleanup the previous invocation returned throws (the body is then never
\* called).
Outcomes == BodyOutcomes \cup {"cleanupThrows"}

\* HookOptions: validate is absent ("none") or a predicate whose current
\* value is "true" or "false"; ssr only exists beside validate.
NoHookOptions == [validate |-> "none", ssr |-> FALSE]

HookOptionSets == {NoHookOptions} \cup [validate : {"true", "false"}, ssr : BOOLEAN]

HookState == [entries |-> hEntries, obj |-> hObj, next |-> hNext]

\* this._entries.findIndex((e) => e.listener === listener); 0 stands for -1
FindIndex(st, l) ==
    LET hits == {i \in DOMAIN st.entries : st.obj[st.entries[i]].listener = l}
    IN IF hits = {} THEN 0 ELSE CHOOSE i \in hits : \A j \in hits : i <= j

\* Hook._destroy, when the cleanup of the entry (if any) returns normally
Destroy(st, l) ==
    LET index == FindIndex(st, l)
    IN IF index = 0 THEN st
       ELSE [st EXCEPT !.entries = RemoveAt(st.entries, index)]

\* this._entries[index].cleanup of _destroy is a function
HasCleanup(st, l) ==
    LET index == FindIndex(st, l)
    IN IF index = 0 THEN FALSE ELSE st.obj[st.entries[index]].cleanup

\* Hook._destroy: `if (cleanup) cleanup()` is not guarded, so a cleanup that
\* throws leaves _destroy before the splice.
Destroyed(st, l, cleanupThrows) ==
    IF HasCleanup(st, l) /\ cleanupThrows
    THEN [st EXCEPT !.obj[st.entries[FindIndex(st, l)]].spent = hTrace]
    ELSE Destroy(st, l)

\* what removeListener returns ("throws": the exception of the cleanup)
DestroyReturn(st, l, cleanupThrows) ==
    IF FindIndex(st, l) = 0 THEN "false"
    ELSE IF HasCleanup(st, l) /\ cleanupThrows THEN "throws"
    ELSE "true"

\* the entry object of a registered listener
EntryOf(st, l) == st.entries[FindIndex(st, l)]

AddListener_overwrite(st, l, priority, once) ==
    IF FindIndex(st, l) # 0
    THEN [st EXCEPT !.obj[EntryOf(st, l)].priority = priority]
    ELSE LET id == st.next + 1
             entry == [listener |-> l, disabled |-> FALSE, once |-> once,
                       priority |-> priority, cleanup |-> FALSE, spent |-> FALSE]
         IN [entries |-> IF priority = 1 THEN <<id>> \o st.entries
                         ELSE Append(st.entries, id),
             obj |-> [st.obj EXCEPT ![id] = entry],
             next |-> id]

\* Hook.addListener up to the insertion into _entries
AddListener(st, l, priority, once) ==
    IF FindIndex(st, l) # 0 THEN st
    ELSE LET id == st.next + 1
             entry == [listener |-> l, disabled |-> FALSE, once |-> once,
                       priority |-> priority, cleanup |-> FALSE, spent |-> FALSE]
         IN [entries |-> IF priority = 1 THEN <<id>> \o st.entries
                         ELSE Append(st.entries, id),
             obj |-> [st.obj EXCEPT ![id] = entry],
             next |-> id]

CatchesUp_never(options) == FALSE

\* this._options.validate && this._options.validate()
CatchesUp(options) == options.validate = "true"

\* The calls a listener body makes on the hook.
ApplyEffect(st, eff) ==
    CASE eff.op = "nop" -> st
      [] eff.op = "remove" -> Destroy(st, eff.l)
      [] eff.op = "add" -> AddListener(st, eff.l, eff.priority, eff.once)

\* A body effect that allocates needs a free entry object.  A call that finds
\* nothing to do (addListener of a registered callback, removeListener of one
\* that is not registered) returns early: such a body is the one that does
\* nothing.
Feasible(st, eff) ==
    /\ eff.op = "add" => FindIndex(st, eff.l) = 0 /\ st.next < MaxEntries
    /\ eff.op = "remove" => FindIndex(st, eff.l) # 0

\* _run invokes the listener body exactly when the entry is not disabled.
Invoked(st, e) == ~st.obj[e].disabled

\* The outcomes entry e can have: a disabled entry runs nothing, and only a
\* cleanup that exists can throw; the body is then not called and has no effect.
Possible(st, e, eff, out) ==
    /\ ~Invoked(st, e) => eff.op = "nop" /\ out = "void"
    /\ out = "cleanupThrows" => st.obj[e].cleanup /\ eff.op = "nop"

\* Hook._run: the listener of entry e is invoked unless the entry is disabled;
\* its body has effect eff on the hook and ends with outcome out.
Run(st, e, eff, out) ==
    IF st.obj[e].disabled THEN st
    ELSE LET s1 == IF out = "cleanupThrows" THEN st ELSE ApplyEffect(st, eff)
             s2 == IF out \in {"throw", "cleanupThrows"}
                   THEN [s1 EXCEPT !.obj[e].spent = hTrace /\ s1.obj[e].cleanup]
                   ELSE [s1 EXCEPT !.obj[e].cleanup = (out = "cleanup"),
                                   !.obj[e].spent = FALSE]
         IN IF s2.obj[e].once THEN [s2 EXCEPT !.obj[e].disabled = TRUE] ELSE s2

\* the listener body of entry e is called
Called(st, e, out) == Invoked(st, e) /\ out # "cleanupThrows"

Event(ev, l) == [ev |-> ev, l |-> l]

\* Hook._run: what it calls, in order: the previous cleanup, the listener
\* body, and the catch block when either throws.
RunEvents(st, e, out) ==
    LET l == st.obj[e].listener
    IN IF st.obj[e].disabled THEN <<>>
       ELSE (IF st.obj[e].cleanup THEN <<Event("cleanup", l)>> ELSE <<>>)
            \o (IF out = "cleanupThrows" THEN <<>> ELSE <<Event("body", l)>>)
            \o (IF out \in {"throw", "cleanupThrows"} THEN <<Event("caught", l)>> ELSE <<>>)

\* Hook._destroy: what it calls
DestroyEvents(st, l) == IF HasCleanup(st, l) THEN <<Event("cleanup", l)>> ELSE <<>>

Propagates_throw(out) == out \in {"throw", "cleanupThrows"}

\* Hook._run: the catch block logs the exception and does not rethrow, so
\* no outcome of the try block leaves _run by an exception.
Propagates(out) == FALSE

IsLowPriority_never(e) == FALSE

\* entry.options.priority === -1
IsLowPriority(e) == hObj[e].priority = -1

\* the listener of entry e, if its run ends in the catch block (recorded only
\* in traced behaviours)
Thrower(st, e, out) ==
    IF hTrace /\ Invoked(st, e) /\ out \in {"throw", "cleanupThrows"}
    THEN {st.obj[e].listener} ELSE {}

\* the listener of entry e, if its run calls a cleanup that had been called
\* before (recorded only in traced behaviours)
Twice(st, e) ==
    IF Invoked(st, e) /\ st.obj[e].cleanup /\ st.obj[e].spent
    THEN {st.obj[e].listener} ELSE {}

\* listener l, if _destroy calls a cleanup of it that had been called before
TwiceDestroyed(st, l) ==
    IF HasCleanup(st, l) /\ st.obj[st.entries[FindIndex(st, l)]].spent THEN {l} ELSE {}

\* how the call ended (recorded only in traced behaviours)
Ret(status) == IF hTrace THEN status ELSE "none"

\* a hook as constructed
HookBoot(trace, options) ==
    /\ hEntries = <<>>
    /\ hObj = [e \in EntryIds |-> NoEntry]
    /\ hNext = 0
    /\ hPc = "idle"
    /\ hIdx = 0
    /\ hDeferred = <<>>
    /\ hDIdx = 0
    /\ hLog = <<>>
    /\ hStart = {}
    /\ hMissed = {}
    /\ hOptions = options
    /\ hMounts = {}
    /\ hTrace = trace
    /\ hThrew = {}
    /\ hRet = "none"
    /\ hTwice = {}

\* Hook.create() without options
HookInit == HookBoot(FALSE, NoHookOptions)

\* Hook.create() without options, its history recorded
HookTracedInit == HookBoot(TRUE, NoHookOptions)

\* Hook.create({ validate, ssr })
HookCatchUpInit == \E options \in HookOptionSets \ {NoHookOptions} : HookBoot(TRUE, options)

\* An entry object nothing refers to any more is garbage: it is reset, so that
\* two states differ only in what the program can still observe.
Collect(st, refs) ==
    [e \in EntryIds |-> IF e \in Range(st.entries) \cup refs THEN st.obj[e] ELSE NoEntry]

SetHook(st, refs) ==
    \E new \in {st} :
        /\ hEntries' = new.entries
        /\ hObj' = Collect(new, refs)
        /\ hNext' = new.next

LogOf(st, e) == [listener |-> st.obj[e].listener, priority |-> st.obj[e].priority]

Registered(st) == {st.obj[e].listener : e \in Range(st.entries)}

Invocations(l) == Cardinality({i \in DOMAIN hLog : hLog[i].listener = l})

\* addListener called by a component, outside a dispatch.  When the hook
\* validates and renders on the server the new entry is run at once, its body
\* ending with outcome out; when it validates in the browser the run is
\* handed to onMount.
HAddListener(l, priority, once, out) ==
    /\ hPc = "idle"
    /\ FindIndex(HookState, l) = 0 => hNext < MaxEntries
    /\ LET fresh == FindIndex(HookState, l) = 0
           now == fresh /\ CatchesUp(hOptions) /\ hOptions.ssr
           later == fresh /\ CatchesUp(hOptions) /\ ~hOptions.ssr
       IN \E st1 \in {AddListener(HookState, l, priority, once)} :
             LET mounts == IF later THEN hMounts \cup {st1.next} ELSE hMounts
             IN /\ IF now THEN out \in BodyOutcomes ELSE out = "void"
                /\ SetHook(IF now THEN Run(st1, st1.next, NopEffect, out) ELSE st1, mounts)
                /\ hMounts' = mounts
                /\ hLog' = IF now THEN <<LogOf(st1, st1.next)>> ELSE <<>>
                /\ hThrew' = IF now THEN Thrower(st1, st1.next, out) ELSE {}
                /\ hTwice' = {}
                /\ hRet' = Ret(IF fresh THEN "added" ELSE "kept")
    /\ hMissed' = {}
    /\ hStart' = {}
    /\ UNCHANGED <<hPc, hIdx, hDeferred, hDIdx, hOptions, hTrace>>
    /\ UNCHANGED notHook

\* removeListener (or the onDestroy callback) outside a dispatch; the cleanup
\* of the entry, if there is one, returns or throws
HRemoveListener(l, cleanupThrows) ==
    /\ hPc = "idle"
    /\ cleanupThrows => HasCleanup(HookState, l)
    /\ SetHook(Destroyed(HookState, l, cleanupThrows), hMounts)
    /\ hThrew' = {}
    /\ hTwice' = TwiceDestroyed(HookState, l)
    /\ hRet' = Ret(DestroyReturn(HookState, l, cleanupThrows))
    /\ hLog' = <<>>
    /\ hMissed' = {}
    /\ hStart' = {}
    /\ UNCHANGED <<hPc, hIdx, hDeferred, hDIdx, hOptions, hMounts, hTrace>>
    /\ UNCHANGED notHook

\* dispatch is entered: beforeDispatch runs and the iterator over _entries
\* is created
HDispatchBegin ==
    /\ hPc = "idle"
    /\ hPc' = "main"
    /\ hIdx' = 1
    /\ hDeferred' = <<>>
    /\ hDIdx' = 0
    /\ hLog' = <<>>
    /\ hStart' = {hObj[e].listener : e \in {x \in Range(hEntries) : ~hObj[x].disabled}}
    /\ hMissed' = {}
    /\ hThrew' = {}
    /\ hTwice' = {}
    /\ hRet' = Ret("running")
    /\ UNCHANGED <<hEntries, hObj, hNext, hOptions, hMounts, hTrace>>
    /\ UNCHANGED notHook

\* one iteration of `for (const entry of this._entries)`
HMainStep(eff, out) ==
    /\ hPc = "main"
    /\ hIdx <= Len(hEntries)
    /\ LET e == hEntries[hIdx]
           thrown == ~IsLowPriority(e) /\ Invoked(HookState, e) /\ Propagates(out)
       IN /\ IF IsLowPriority(e)
             THEN /\ hDeferred' = Append(hDeferred, e)
                  /\ eff.op = "nop" /\ out = "void"
                  /\ UNCHANGED <<hEntries, hObj, hNext, hLog, hThrew, hRet, hTwice>>
             ELSE /\ Feasible(HookState, eff)
                  /\ Possible(HookState, e, eff, out)
                  /\ SetHook(Run(HookState, e, eff, out), Range(hDeferred) \cup hMounts)
                  /\ hLog' = IF Called(HookState, e, out)
                             THEN Append(hLog, LogOf(HookState, e)) ELSE hLog
                  /\ hDeferred' = IF thrown THEN <<>> ELSE hDeferred
                  /\ hThrew' = hThrew \cup Thrower(HookState, e, out)
                  /\ hTwice' = Twice(HookState, e)
                  /\ hRet' = IF thrown THEN Ret("throws") ELSE hRet
          /\ hPc' = IF thrown THEN "idle" ELSE hPc
          /\ hIdx' = IF thrown THEN 0 ELSE hIdx + 1
    /\ UNCHANGED <<hDIdx, hStart, hMissed, hOptions, hMounts, hTrace>>
    /\ UNCHANGED notHook

\* the iterator over _entries is exhausted
HMainExit ==
    /\ hPc = "main"
    /\ hIdx > Len(hEntries)
    /\ hPc' = "deferred"
    /\ hDIdx' = 1
    /\ UNCHANGED <<hEntries, hObj, hNext, hIdx, hDeferred, hLog, hStart, hMissed,
                   hOptions, hMounts, hTrace, hThrew, hRet, hTwice>>
    /\ UNCHANGED notHook

\* one iteration of `for (const entry of deferredEntries)`
HDeferredStep(eff, out) ==
    /\ hPc = "deferred"
    /\ hDIdx <= Len(hDeferred)
    /\ LET e == hDeferred[hDIdx]
           thrown == Invoked(HookState, e) /\ Propagates(out)
       IN /\ Feasible(HookState, eff)
          /\ Possible(HookState, e, eff, out)
          /\ SetHook(Run(HookState, e, eff, out),
                     IF thrown THEN hMounts
                     ELSE {hDeferred[k] : k \in (hDIdx + 1)..Len(hDeferred)} \cup hMounts)
          /\ hLog' = IF Called(HookState, e, out)
                     THEN Append(hLog, LogOf(HookState, e)) ELSE hLog
          /\ hPc' = IF thrown THEN "idle" ELSE hPc
          /\ hDIdx' = IF thrown THEN 0 ELSE hDIdx + 1
          /\ hDeferred' = IF thrown THEN <<>> ELSE hDeferred
          /\ hIdx' = IF thrown THEN 0 ELSE hIdx
          /\ hThrew' = hThrew \cup Thrower(HookState, e, out)
          /\ hTwice' = Twice(HookState, e)
          /\ hRet' = IF thrown THEN Ret("throws") ELSE hRet
    /\ UNCHANGED <<hStart, hMissed, hOptions, hMounts, hTrace>>
    /\ UNCHANGED notHook

\* afterDispatch runs and dispatch returns
HDispatchEnd ==
    /\ hPc = "deferred"
    /\ hDIdx > Len(hDeferred)
    /\ hPc' = "idle"
    /\ hMissed' = {l \in hStart : l \in Registered(HookState) /\ Invocations(l) # 1}
    /\ hStart' = {}
    /\ hIdx' = 0
    /\ hDIdx' = 0
    /\ hDeferred' = <<>>
    /\ hRet' = Ret("void")
    /\ UNCHANGED <<hEntries, hObj, hNext, hLog, hOptions, hMounts, hTrace, hThrew, hTwice>>
    /\ UNCHANGED notHook

\* the component that added entry e while the hook validated mounts: the
\* callback addListener handed to onMount runs the entry
HMountRun(e, out) ==
    /\ hPc = "idle"
    /\ e \in hMounts
    /\ Possible(HookState, e, NopEffect, out)
    /\ SetHook(Run(HookState, e, NopEffect, out), hMounts \ {e})
    /\ hMounts' = hMounts \ {e}
    /\ hThrew' = Thrower(HookState, e, out)
    /\ hTwice' = Twice(HookState, e)
    /\ hRet' = Ret("mounted")
    /\ hLog' = IF Called(HookState, e, out) THEN <<LogOf(HookState, e)>> ELSE <<>>
    /\ hMissed' = {}
    /\ hStart' = {}
    /\ UNCHANGED <<hPc, hIdx, hDeferred, hDIdx, hOptions, hTrace>>
    /\ UNCHANGED notHook

\* what the validate predicate reads changes
HValidateChanges ==
    /\ hPc = "idle"
    /\ hOptions.validate # "none"
    /\ hOptions' = [hOptions EXCEPT !.validate = IF @ = "true" THEN "false" ELSE "true"]
    /\ hThrew' = {}
    /\ hTwice' = {}
    /\ hRet' = "none"
    /\ hLog' = <<>>
    /\ hMissed' = {}
    /\ hStart' = {}
    /\ UNCHANGED <<hEntries, hObj, hNext, hPc, hIdx, hDeferred, hDIdx, hMounts, hTrace>>
    /\ UNCHANGED notHook

\* a hook without options, whose cleanups return normally
HookNext ==
    \/ \E l \in Listeners, pr \in Priorities, once \in BOOLEAN :
          HAddListener(l, pr, once, "void")
    \/ \E l \in Listeners : HRemoveListener(l, FALSE)
    \/ HDispatchBegin
    \/ \E eff \in BodyEffects, out \in BodyOutcomes : HMainStep(eff, out)
    \/ HMainExit
    \/ \E eff \in BodyEffects, out \in BodyOutcomes : HDeferredStep(eff, out)
    \/ HDispatchEnd

\* a hook without options under listeners that are not once listeners and
\* whose bodies leave the hook alone; cleanups may throw
HookTracedNext ==
    \/ \E l \in Listeners, pr \in Priorities : HAddListener(l, pr, FALSE, "void")
    \/ \E l \in Listeners, cleanupThrows \in BOOLEAN : HRemoveListener(l, cleanupThrows)
    \/ HDispatchBegin
    \/ \E out \in Outcomes : HMainStep(NopEffect, out)
    \/ HMainExit
    \/ \E out \in Outcomes : HDeferredStep(NopEffect, out)
    \/ HDispatchEnd

\* a hook with a validate option under listeners of normal priority whose
\* bodies leave the hook alone and return nothing
HookCatchUpNext ==
    \/ \E l \in Listeners, once \in BOOLEAN : HAddListener(l, 0, once, "void")
    \/ \E l \in Listeners : HRemoveListener(l, FALSE)
    \/ HDispatchBegin
    \/ HMainStep(NopEffect, "void")
    \/ HMainExit
    \/ HDispatchEnd
    \/ \E e \in EntryIds : HMountRun(e, "void")
    \/ HValidateChanges

-----------------------------------------------------------------------------
(***************************************************************************)
(* AppContext and the page swap                                            *)
(***************************************************************************)

\* Number of pages the key block renders one after the other.
MaxPages == 3
\* Number of other components that use useApp().
NWidgets == 1

Pages == 1..MaxPages
Widgets == (MaxPages + 1)..(MaxPages + NWidgets)
FlagNames == {"frozen", "scrollPaused"}
\* the value argument of frozen() / scrollPaused(): undefined, true or false
HoldValues == {Unset, {TRUE}, {FALSE}}

SomeSet_clear(set, id, value) ==
    IF value = Unset THEN set
    ELSE IF value = {TRUE} THEN set \cup {id} ELSE {}

\* some(): if (value !== undefined) { if (value) set.add(id); else set.delete(id); }
SomeSet(set, id, value) ==
    IF value = Unset THEN set
    ELSE IF value = {TRUE} THEN set \cup {id} ELSE set \ {id}

\* some(): return set.size > 0
Some(set) == set # {}

\* frozen() and scrollPaused() of any component, swapping()
Frozen == Some(aFrozen)
ScrollPaused == Some(aScrollPaused)

\* what the last own call of a component leaves of its hold on a flag
Hold(held, id, value) ==
    IF value = Unset THEN held
    ELSE IF value = {TRUE} THEN held \cup {id} ELSE held \ {id}

\* no beforeSwap dispatch yet; no deferred handed out
NoBefore ==
    [leaving |-> 0, swapping |-> FALSE, swap |-> -1, promise |-> -1]
NoHanded == [before |-> -1, on |-> -1, done |-> -1]

\* new AppContext(), the first page created inside the key block, nothing
\* mounted yet
AppInit ==
    /\ aInitial = TRUE
    /\ aSwapping = FALSE
    /\ aSwap = 0
    /\ aResolved = {}
    /\ aFrozen = {}
    /\ aScrollPaused = {}
    /\ aAlive = Widgets \cup {1}
    /\ aNav = FALSE
    /\ aPage = [p \in Pages |-> IF p = 1 THEN "created" ELSE "none"]
    /\ aSnapshot = {1}
    /\ aAfter = {}
    /\ aHeld = [f \in FlagNames |-> {}]
    /\ aLast = "none"
    /\ aOnce = {}
    /\ aBefore = NoBefore
    /\ aHanded = [p \in Pages |-> NoHanded]

\* beforeNavigate(({ cancel }) => { if (swapping()) cancel(); })
Cancels_never(swapping) == FALSE

Cancels(swapping) == swapping

\* the page the key block shows: the last one it created
Current == CHOOSE p \in Pages : aPage[p] # "none" /\ \A q \in Pages : q > p => aPage[q] = "none"

\* getPageEl(state): document.querySelector(`[data-page="${state}"]`), 0 for
\* null; a page element carries data-page="entering" until its outro
Entering(pages) == {p \in Pages : pages[p] \in {"created", "mounted"}}
Leaving(pages) == {p \in Pages : pages[p] \in {"leaving", "pinned"}}
GetPageEl(state, pages) ==
    LET found == IF state = "entering" THEN Entering(pages) ELSE Leaving(pages)
    IN IF found = {} THEN 0 ELSE CHOOSE p \in found : \A q \in found : p <= q

Resolve_nothing(resolved, deferred) == resolved

\* swap().resolve()
Resolve(resolved, deferred) == resolved \cup {deferred}

\* a component calls frozen(value) or scrollPaused(value)
AFlag(c, flag, value) ==
    /\ c \in aAlive \cap Widgets
    /\ IF flag = "frozen"
       THEN /\ aFrozen' = SomeSet(aFrozen, c, value)
            /\ UNCHANGED aScrollPaused
       ELSE /\ aScrollPaused' = SomeSet(aScrollPaused, c, value)
            /\ UNCHANGED aFrozen
    /\ aHeld' = [aHeld EXCEPT ![flag] = Hold(@, c, value)]
    /\ aLast' = "flag"
    /\ UNCHANGED <<aInitial, aSwapping, aSwap, aResolved, aAlive, aNav, aPage, aSnapshot,
                   aAfter, aOnce, aBefore, aHanded>>
    /\ UNCHANGED notApp

\* the onDestroy of AppContext.extend: extended.frozen(false);
\* extended.scrollPaused(false)
Released(set, c) == SomeSet(set, c, {FALSE})

\* a component other than a page is destroyed
AWidgetDestroy(c) ==
    /\ c \in aAlive \cap Widgets
    /\ aAlive' = aAlive \ {c}
    /\ aFrozen' = Released(aFrozen, c)
    /\ aScrollPaused' = Released(aScrollPaused, c)
    /\ aHeld' = [f \in FlagNames |-> aHeld[f] \ {c}]
    /\ aLast' = "destroy"
    /\ UNCHANGED <<aInitial, aSwapping, aSwap, aResolved, aNav, aPage, aSnapshot, aAfter,
                   aOnce, aBefore, aHanded>>
    /\ UNCHANGED notApp

\* onMount of a page
APageMount(p) ==
    /\ aPage[p] = "created"
    /\ aPage' = [aPage EXCEPT ![p] = "mounted"]
    /\ IF p \in aSnapshot
       THEN /\ aAfter' = aAfter \cup {p}
            /\ aResolved' = Resolve(aResolved, aSwap)
            /\ UNCHANGED aHanded
       ELSE /\ UNCHANGED <<aAfter, aResolved>>
            /\ \E leaving \in {GetPageEl("leaving", aPage)} :
                  aHanded' = IF leaving = 0 THEN aHanded
                             ELSE [aHanded EXCEPT ![leaving].on = aSwap]
    /\ aLast' = "mount"
    /\ UNCHANGED <<aInitial, aSwapping, aSwap, aFrozen, aScrollPaused, aAlive, aNav,
                   aSnapshot, aHeld, aOnce, aBefore>>
    /\ UNCHANGED notApp

\* AppContext._init: onMount(() => { this._initial = false; }), run after the
\* onMount of the components inside the template
AAppMount ==
    /\ aInitial
    /\ aPage[1] = "mounted"
    /\ aInitial' = FALSE
    /\ aLast' = "mount"
    /\ UNCHANGED <<aSwapping, aSwap, aResolved, aFrozen, aScrollPaused, aAlive, aNav, aPage,
                   aSnapshot, aAfter, aHeld, aOnce, aBefore, aHanded>>
    /\ UNCHANGED notApp

\* a navigation starts once the application has mounted: the beforeNavigate
\* callback of setupTemplate; a navigation that is not cancelled replaces the
\* one that had not completed
ANavigate ==
    /\ ~aInitial
    /\ IF Cancels(aSwapping)
       THEN /\ aLast' = "cancelled"
            /\ UNCHANGED aNav
       ELSE /\ aLast' = "navigating"
            /\ aNav' = TRUE
    /\ UNCHANGED <<aInitial, aSwapping, aSwap, aResolved, aFrozen, aScrollPaused, aAlive,
                   aPage, aSnapshot, aAfter, aHeld, aOnce, aBefore, aHanded>>
    /\ UNCHANGED notApp

Observes_after(before, after) == after

\* what a beforeSwap listener reads of a state outro assigns: outro calls
\* beforeSwap.dispatch before swapping(true) and swap(resolvers)
Observes(before, after) == before

\* the navigation completes; where it changes the key of the key block, the
\* block calls the out transition of the page it shows (outro: a deferred is
\* made, named after the page, and its promise dispatched) and creates the
\* next page
ANavigated(changes) ==
    /\ aNav
    /\ aNav' = FALSE
    /\ IF changes
       THEN /\ Current < MaxPages
            /\ aPage[Current] = "mounted"
            /\ aPage' = [aPage EXCEPT ![Current] = "leaving", ![Current + 1] = "created"]
            /\ aSwapping' = TRUE
            /\ aSwap' = Current
            /\ aBefore' = [leaving |-> Current,
                           swapping |-> Observes(aSwapping, TRUE),
                           swap |-> Observes(aSwap, Current),
                           promise |-> Current]
            /\ aHanded' = [aHanded EXCEPT ![Current].before = Current]
            /\ aSnapshot' = IF aInitial THEN aSnapshot \cup {Current + 1} ELSE aSnapshot
            /\ aAlive' = aAlive \cup {Current + 1}
            /\ aLast' = "outro"
       ELSE /\ aLast' = "same"
            /\ UNCHANGED <<aPage, aSwapping, aSwap, aSnapshot, aAlive, aBefore, aHanded>>
    /\ UNCHANGED <<aInitial, aResolved, aFrozen, aScrollPaused, aAfter, aHeld, aOnce>>
    /\ UNCHANGED notApp

\* outroHandler, once, on the first outrostart of an element inside a
\* mounted page while swapping(): in the leaving page or in the entering one
AOutroStart(p) ==
    /\ aPage[p] \in {"mounted", "leaving"}
    /\ p \notin aOnce
    /\ aSwapping
    /\ aOnce' = aOnce \cup {p}
    /\ aPage' = [aPage EXCEPT ![p] = IF @ = "leaving" THEN "pinned" ELSE @]
    /\ aScrollPaused' = SomeSet(aScrollPaused, p, {TRUE})
    /\ aFrozen' = SomeSet(aFrozen, p, {TRUE})
    /\ aHeld' = [f \in FlagNames |-> Hold(aHeld[f], p, {TRUE})]
    /\ aLast' = "outrostart"
    /\ UNCHANGED <<aInitial, aSwapping, aSwap, aResolved, aAlive, aNav, aSnapshot, aAfter,
                   aBefore, aHanded>>
    /\ UNCHANGED notApp

\* the out transition of a leaving page has ended and the key block destroys
\* the component: the onDestroy of AppContext.extend, then the page's own
APageDestroy(p) ==
    /\ p \in Leaving(aPage)
    /\ aPage' = [aPage EXCEPT ![p] = "destroyed"]
    /\ aAlive' = aAlive \ {p}
    /\ aFrozen' = Released(aFrozen, p)
    /\ aScrollPaused' = Released(aScrollPaused, p)
    /\ aHeld' = [f \in FlagNames |-> aHeld[f] \ {p}]
    /\ \E entering \in {GetPageEl("entering", aPage)} :
          IF entering = 0
          THEN UNCHANGED <<aSwapping, aAfter, aResolved, aHanded>>
          ELSE /\ aSwapping' = FALSE
               /\ aAfter' = aAfter \cup {entering}
               /\ aResolved' = Resolve(aResolved, aSwap)
               /\ aHanded' = [aHanded EXCEPT ![p].done = aSwap]
    /\ aOnce' = aOnce \ {p}
    /\ aLast' = "destroy"
    /\ UNCHANGED <<aInitial, aSwap, aNav, aSnapshot, aBefore>>
    /\ UNCHANGED notApp

AppNext ==
    \/ \E c \in Widgets, f \in FlagNames, v \in HoldValues : AFlag(c, f, v)
    \/ \E c \in Widgets : AWidgetDestroy(c)
    \/ \E p \in Pages : APageMount(p)
    \/ AAppMount
    \/ ANavigate
    \/ \E changes \in BOOLEAN : ANavigated(changes)
    \/ \E p \in Pages : AOutroStart(p)
    \/ \E p \in Pages : APageDestroy(p)

-----------------------------------------------------------------------------
(***************************************************************************)
(* PreloadContext                                                          *)
(***************************************************************************)

\* Largest number of preloads _createImagePreload makes.
MaxPreloads == 3

\* the image queries (_getImageQuery) and the components that preload them
Queries == {1, 2}
Loaders == {1, 2}

\* no entry under a query / a PreloadedImageEntry: the entry is known by the
\* number of the promise it was created with; attached: _rootEl contains
\* entry.element
NoImage ==
    [id |-> 0, promise |-> 0, components |-> {}, resolved |-> FALSE, attached |-> FALSE]

NewImage(promise) ==
    [id |-> promise, promise |-> promise, components |-> {}, resolved |-> FALSE,
     attached |-> TRUE]

\* what _createImagePreload returns, with the entry _attachPromiseHandlers
\* closes over
NewPromise(query, entry) == [query |-> query, entry |-> entry, state |-> "pending"]

NoICall == [op |-> "none", query |-> 0, promise |-> 0, fresh |-> FALSE]

PreloadInit ==
    /\ iImages = [q \in Queries |-> NoImage]
    /\ iPromises = <<>>
    /\ iQueries = [c \in Loaders |-> {}]
    /\ iAlive = Loaders
    /\ iCall = NoICall

\* _registerImage
RegisterImage(images, promises, c, query) ==
    LET created == images[query] = NoImage
        promise == Len(promises) + 1
        entry == IF created THEN NewImage(promise) ELSE images[query]
    IN [images |-> [images EXCEPT ![query] =
                        [entry EXCEPT !.components = @ \cup {c}]],
        promises |-> IF created THEN Append(promises, NewPromise(query, promise))
                     ELSE promises,
        returned |-> entry.promise,
        created |-> created]

\* preloadImage(...params) of a component, params giving the query
IPreloadImage(c, query) ==
    /\ c \in iAlive
    /\ iImages[query] = NoImage => Len(iPromises) < MaxPreloads
    /\ iQueries' = [iQueries EXCEPT ![c] = @ \cup {query}]
    /\ \E r \in {RegisterImage(iImages, iPromises, c, query)} :
          /\ iImages' = r.images
          /\ iPromises' = r.promises
          /\ iCall' = [op |-> "preload", query |-> query, promise |-> r.returned,
                       fresh |-> r.created]
    /\ UNCHANGED iAlive
    /\ UNCHANGED notPreload

Forget_never(images, query, entry) == images

\* the catch handler: if (this._preloadedImages.get(query) === entry)
\* this._preloadedImages.delete(query)
Forget(images, query, entry) ==
    IF images[query].id = entry THEN [images EXCEPT ![query] = NoImage] ELSE images

\* the then handler: entry.resolved = true, the entry's element removed; an
\* entry that is no longer in the map is not observable
Fulfil(images, query, entry) ==
    IF images[query].id = entry
    THEN [images EXCEPT ![query].resolved = TRUE, ![query].attached = FALSE]
    ELSE images

\* a preload promise settles and the handlers attached to it run
ISettle(promise, ok) ==
    /\ promise \in DOMAIN iPromises
    /\ iPromises[promise].state = "pending"
    /\ iPromises' = [iPromises EXCEPT ![promise].state = IF ok THEN "resolved" ELSE "rejected"]
    /\ iImages' = IF ok
                  THEN Fulfil(iImages, iPromises[promise].query, iPromises[promise].entry)
                  ELSE Forget(iImages, iPromises[promise].query, iPromises[promise].entry)
    /\ iCall' = [NoICall EXCEPT !.op = IF ok THEN "resolve" ELSE "reject",
                                !.query = iPromises[promise].query, !.promise = promise]
    /\ UNCHANGED <<iQueries, iAlive>>
    /\ UNCHANGED notPreload

\* _handleResize: every entry some component uses gets a new preload
RECURSIVE HandleResize(_, _, _)
HandleResize(images, promises, queries) ==
    IF queries = {} THEN [images |-> images, promises |-> promises]
    ELSE LET query == CHOOSE q \in queries : \A r \in queries : q <= r
             promise == Len(promises) + 1
         IN IF images[query] # NoImage /\ images[query].components # {}
            THEN HandleResize(
                    [images EXCEPT ![query].promise = promise, ![query].resolved = FALSE,
                                   ![query].attached = TRUE],
                    Append(promises, NewPromise(query, images[query].id)),
                    queries \ {query})
            ELSE HandleResize(images, promises, queries \ {query})

IResize ==
    /\ \E r \in {HandleResize(iImages, iPromises, Queries)} :
          /\ Len(r.promises) <= MaxPreloads
          /\ Len(r.promises) > Len(iPromises)
          /\ iImages' = r.images
          /\ iPromises' = r.promises
    /\ iCall' = [NoICall EXCEPT !.op = "resize"]
    /\ UNCHANGED <<iQueries, iAlive>>
    /\ UNCHANGED notPreload

\* _unregisterImage
UnregisterImage(images, c, query) ==
    IF images[query] = NoImage THEN images
    ELSE LET components == images[query].components \ {c}
         IN [images EXCEPT ![query].components = components,
                           ![query].attached = @ /\ components # {}]

\* the onDestroy of PreloadContext.extend
RECURSIVE UnregisterAll(_, _, _)
UnregisterAll(images, c, queries) ==
    IF queries = {} THEN images
    ELSE LET query == CHOOSE q \in queries : TRUE
         IN UnregisterAll(UnregisterImage(images, c, query), c, queries \ {query})

IDestroy(c) ==
    /\ c \in iAlive
    /\ iAlive' = iAlive \ {c}
    /\ iImages' = UnregisterAll(iImages, c, iQueries[c])
    /\ iCall' = [NoICall EXCEPT !.op = "destroy"]
    /\ UNCHANGED <<iPromises, iQueries>>
    /\ UNCHANGED notPreload

PreloadNext ==
    \/ \E c \in Loaders, q \in Queries : IPreloadImage(c, q)
    \/ \E k \in 1..MaxPreloads, ok \in BOOLEAN : ISettle(k, ok)
    \/ IResize
    \/ \E c \in Loaders : IDestroy(c)

-----------------------------------------------------------------------------
(***************************************************************************)
(* Specifications: one per subsystem                                       *)
(***************************************************************************)

QuietInit ==
    HookInit /\ PortalInit /\ CrossfadeInit /\ SuspenseQuiet /\ TweenQuiet /\ ScopeInit /\ AppInit
        /\ PreloadInit

SpecHook == QuietInit /\ [][HookNext]_vars

SpecPortal == QuietInit /\ [][PortalNext]_vars

SpecCrossfade == QuietInit /\ [][CrossfadeNext]_vars

\* the other subsystems as constructed, beside any boundary
BoundaryInit ==
    SuspenseInit /\ HookInit /\ PortalInit /\ CrossfadeInit /\ TweenQuiet /\ ScopeInit /\ AppInit
        /\ PreloadInit

SpecSuspense == BoundaryInit /\ [][SuspenseNext]_vars

\* the other subsystems as constructed, beside a boundary configured with tasks
TimedInit ==
    SuspenseTimedInit /\ HookInit /\ PortalInit /\ CrossfadeInit /\ TweenQuiet /\ ScopeInit /\ AppInit
        /\ PreloadInit

SpecSuspenseTimed == TimedInit /\ [][SuspenseTimedNext]_vars

\* the other subsystems as constructed, beside a boundary with nothing to wait for
IdleInit ==
    SuspenseIdleInit /\ HookInit /\ PortalInit /\ CrossfadeInit /\ TweenQuiet /\ ScopeInit /\ AppInit
        /\ PreloadInit

SpecSuspenseIdle == IdleInit /\ [][SuspenseIdleNext]_vars

SpecTween == QuietInit /\ [][TweenNext]_vars

\* the other subsystems as constructed, beside an instance with options
ResolveInit ==
    HookInit /\ PortalInit /\ CrossfadeInit /\ SuspenseQuiet /\ TweenResolveInit /\ ScopeInit /\ AppInit
        /\ PreloadInit

SpecTweenResolve == ResolveInit /\ [][TweenResolveNext]_vars

\* the other subsystems as constructed, beside an instance whose history is
\* recorded
QueueInit ==
    HookInit /\ PortalInit /\ CrossfadeInit /\ SuspenseQuiet /\ TweenIdleInit /\ ScopeInit /\ AppInit
        /\ PreloadInit

SpecTweenIdle == QueueInit /\ [][TweenIdleNext]_vars

\* the other subsystems as constructed, beside an instance whose elements are
\* followed
WatchInit ==
    HookInit /\ PortalInit /\ CrossfadeInit /\ SuspenseQuiet /\ TweenWatchInit /\ ScopeInit
        /\ AppInit /\ PreloadInit

SpecTweenWatch == WatchInit /\ [][TweenWatchNext]_vars

\* the followed instance, under calls with ignore
SpecTweenIgnore == WatchInit /\ [][TweenIgnoreNext]_vars

\* the other subsystems as constructed, beside an instance whose previous
\* animation is kept or replaced
OverwriteInit ==
    HookInit /\ PortalInit /\ CrossfadeInit /\ SuspenseQuiet /\ TweenOverwriteInit /\ ScopeInit
        /\ AppInit /\ PreloadInit

SpecTweenOverwrite == OverwriteInit /\ [][TweenOverwriteNext]_vars

SkipInit ==
    HookInit /\ PortalInit /\ CrossfadeInit /\ SuspenseQuiet /\ TweenSkipInit /\ ScopeInit /\ AppInit
        /\ PreloadInit

SpecTweenSkip == SkipInit /\ [][TweenSkipNext]_vars

\* the other subsystems as constructed, beside a portal whose calls are
\* recorded
TrackInit ==
    HookInit /\ PortalTrackInit /\ CrossfadeInit /\ SuspenseQuiet /\ TweenQuiet /\ ScopeInit /\ AppInit
        /\ PreloadInit

SpecPortalTrack == TrackInit /\ [][PortalTrackNext]_vars

\* the template before its mount, the other subsystems as constructed
SpecApp == QuietInit /\ [][AppNext]_vars

\* image preloads, the other subsystems as constructed
SpecPreload == QuietInit /\ [][PreloadNext]_vars

\* the out transition of a leaving page lasts for the finite duration keepAlive
\* returns, after which the key block destroys the page component
SpecAppLive == QuietInit /\ [][AppNext]_vars /\ WF_vars(\E p \in Pages : APageDestroy(p))

\* component-scoped registration, the other subsystems as constructed
SpecScope == QuietInit /\ [][ScopeNext]_vars

\* the other subsystems as constructed, beside a hook whose history is recorded
TracedInit ==
    HookTracedInit /\ PortalInit /\ CrossfadeInit /\ SuspenseQuiet /\ TweenQuiet /\ ScopeInit /\ AppInit
        /\ PreloadInit

SpecHookTraced == TracedInit /\ [][HookTracedNext]_vars

\* the other subsystems as constructed, beside a hook that validates
CatchUpInit ==
    HookCatchUpInit /\ PortalInit /\ CrossfadeInit /\ SuspenseQuiet /\ TweenQuiet /\ ScopeInit /\ AppInit
        /\ PreloadInit

SpecHookCatchUp == CatchUpInit /\ [][HookCatchUpNext]_vars

-----------------------------------------------------------------------------
(***************************************************************************)
(* Claims                                                                  *)
(***************************************************************************)

\* C1: while a pending task, a true predicate or a suspended parent holds, the
\* boundary does not reveal: the timeout started when the condition became
\* false is cancelled when it becomes true again, so no onReveal is dispatched
\* (and suspended() does not become false) while the condition holds.
C1_NoRevealWhileCondition ==
    sEv = "reveal" => ~SuspendedCondition

\* C2: a boundary with final: true that has revealed stays revealed: suspended()
\* is false and no step dispatches onSuspend, whatever is registered or changes
\* afterwards.
C2_FinalStaysRevealed ==
    (sFinal /\ sHasRevealed) => (~sSuspended /\ sEv # "suspend")

\* A final boundary that has revealed, whose effect has run to completion with a
\* predicate true or the parent suspended again.
C2_Witness ==
    /\ sFinal /\ sHasRevealed /\ ~sDirty
    /\ \E c \in Comps : sPreds[c] = "true"
    /\ sParent = "suspended"

\* the settle delay of the boundary in ms: the largest delay registered
SettleDelay == MsPerSecond * MaxOf(sRegDelays)

\* C3: a boundary with tasks and a settle delay d, no predicate and no parent,
\* is suspended at every moment before (the time its last task settles + d),
\* and is revealed from that moment on.
C3_SuspendedUntilSettled ==
    sTrace =>
        /\ (PendingCount > 0 \/ sNow < sSettledAt + SettleDelay) => sSuspended
        /\ (PendingCount = 0 /\ sNow >= sSettledAt + SettleDelay /\ ~sDirty /\ sTimer # 0)
                => ~sSuspended

\* Two tasks, the last one settling after 500 ms, and a delay of one second:
\* the boundary reveals at 1500 ms.
C3_Witness ==
    /\ sTrace
    /\ sTotal = 2
    /\ sRegDelays = {1}
    /\ sSettledAt = Quantum
    /\ sNow = Quantum + MsPerSecond
    /\ ~sSuspended /\ sEv = "reveal"

\* C4: after the effect has run to completion on a boundary that is not final
\* and revealed, suspended() is true whenever a task is pending, a registered
\* predicate is true or the parent is suspended.
C4_SuspendedWhenCondition ==
    (~sDirty /\ ~(sFinal /\ sHasRevealed)) =>
        (( \/ \E o \in Owners : sPending[o] > 0
           \/ \E o \in Owners : sPreds[o] = "true"
           \/ sParent = "suspended" ) => sSuspended)

\* A boundary that had revealed is suspended again, by its parent alone.
C4_Witness ==
    /\ ~sDirty /\ ~sFinal /\ sHasRevealed /\ sSuspended
    /\ sParent = "suspended"
    /\ \A o \in Owners : sPending[o] = 0 /\ sPreds[o] # "true"

\* C5: an outro() called with the default overlap policy while the instance
\* has an animation in direction "out" returns null and changes neither the
\* progress of that animation nor _animation, direction(), ratio() or the
\* records.
C5_PreventLeavesUntouched ==
    [][(tAnimation # 0 /\ tDirection = "out" /\ tCall'.op = "outro" /\ tCall'.defaulted)
        => (~tCall'.ret /\ UNCHANGED <<tAnims, tAnimation, tDirection, tRatio, tRecords>>)]_vars

\* An outro() with the default policy has returned null while the animation of
\* an earlier outro() was running, a third of its way.
C5_Witness ==
    /\ tCall.op = "outro" /\ tCall.defaulted /\ ~tCall.ret
    /\ tAnimation = AnimId("out") /\ tDirection = "out"
    /\ tRecords["out"].type = "outro"
    /\ tAnims[tAnimation] = [progress |-> 1, state |-> "running"]

\* the step is an intro() / outro() that calls the transition function while
\* the instance has an animation of the opposite direction
ReverseCall ==
    /\ tAnimation # 0
    /\ tDirection # "none"
    /\ tCall'.op = (IF tDirection = "out" THEN "intro" ELSE "outro")
    /\ tCall'.passed # -1

\* C6 (as claimed): a transition requested while the animation of the opposite
\* direction is at progress p is started with ratio 1 - p, and ratio() reports
\* 1 - p afterwards.
C6_ReverseContinues ==
    [][ReverseCall =>
        /\ tCall'.passed = PMax - tAnims[tAnimation].progress
        /\ tRatio' = PMax - tAnims[tAnimation].progress]_vars

\* C6 (amended): the transition is started with ratio 1 - p, and ratio() reports
\* 1 - p afterwards unless the transition was requested with ignore: true.
C6_ReverseContinuesUnlessIgnored ==
    [][ReverseCall =>
        /\ tCall'.passed = PMax - tAnims[tAnimation].progress
        /\ ~tCall'.ignore => tRatio' = PMax - tAnims[tAnimation].progress]_vars

\* An intro() during an outro a third of its way: the outro animation is
\* killed at 1/3, the intro started at 2/3 and ratio() reports 2/3.
C6_Witness ==
    /\ tCall.op = "intro" /\ tCall.passed = 2 /\ ~tCall.ignore
    /\ tDirection = "in" /\ tRatio = 2
    /\ tRecords["in"] = [NoRecord EXCEPT !.animation = AnimId("in"), !.ratio = 2,
                                          !.type = "intro"]
    /\ tRecords["out"].type = "outro"
    /\ tAnims[AnimId("out")] = [progress |-> 1, state |-> "stopped"]

\* C8: the duration keepAlive resolves to is the maximum of 0 and, over the
\* samples recorded since the previous resolution, delay + duration for a
\* sample without node or with a connected node and 0 for a detached one; the
\* resolution clears the list, so a resolution with no sample recorded since
\* the previous one yields 0.
C8_KeepAliveDuration ==
    LET waits == {IF x.attached THEN x.delay + x.duration ELSE 0 : x \in pDrained} \cup {0}
    IN pDuration # -1 =>
        /\ pDuration \in waits
        /\ \A w \in waits : w <= pDuration
        /\ pTransitions = <<>> <=> pRecorded = {}

\* The resolution of the spec's example: a connected node's sample {100, 200}
\* and a detached node's sample {0, 50} resolve to 300, with the list drained.
C8_Witness ==
    /\ pDuration = 300
    /\ pTransitions = <<>>
    /\ pDrained = {[delay |-> 100, duration |-> 200, attached |-> TRUE],
                   [delay |-> 0, duration |-> 50, attached |-> FALSE]}


\* C9: within one dispatch every listener with priority -1 is invoked only
\* after all listeners with priority 0 or 1 invoked by that dispatch have
\* returned: in the invocation log of a dispatch no listener of priority 0 or 1
\* follows a listener of priority -1.
C9_LowAfterOthers ==
    \A i, j \in DOMAIN hLog :
        (i < j /\ hLog[i].priority = -1) => hLog[j].priority = -1

\* A dispatch has returned that invoked a low-priority listener registered
\* before a listener of priority 0 which it invoked too.
C9_Witness ==
    /\ hPc = "idle"
    /\ \E i, j \in DOMAIN hLog, a, b \in DOMAIN hEntries :
        /\ hLog[i].priority = -1
        /\ hLog[j].priority = 0
        /\ hObj[hEntries[a]].listener = hLog[i].listener
        /\ hObj[hEntries[b]].listener = hLog[j].listener
        /\ a < b

\* C10: a dispatch invokes every enabled listener exactly once: an entry that
\* was registered and enabled when the dispatch began and is still registered
\* when it returns was invoked once, and no entry was invoked twice.
C10_EveryListenerOnce ==
    hPc = "idle" =>
        /\ hMissed = {}
        /\ \A l \in Listeners : Invocations(l) <= 1


\* Registrations c (send) and d (receive) are the only registrations under
\* their key, both were made before either one resolved, and both have resolved.
PairScenario(c, d) ==
    /\ xClosures[c].side = "send" /\ xClosures[d].side = "receive"
    /\ xClosures[c].key = xClosures[d].key
    /\ \A e \in RegIds \ {c, d} : xClosures[e].key # xClosures[c].key
    /\ xClosures[c].state # "pending" /\ xClosures[d].state # "pending"
    /\ d \in xClosures[c].peers /\ c \in xClosures[d].peers

\* both sides ran their paired transition, each with the other node, and both
\* maps hold nothing under the key
PairedOnce(c, d) ==
    /\ xClosures[c].state = "paired" /\ xClosures[c].counterpart = d
    /\ xClosures[d].state = "paired" /\ xClosures[d].counterpart = c
    /\ xToSend[xClosures[c].key] = 0
    /\ xToReceive[xClosures[c].key] = 0

C11_ThrowIsolated ==
    (hPc = "idle" /\ hThrew # {}) =>
        /\ hRet = "void"
        /\ \A l \in Registered(HookState) \ hThrew : Invocations(l) = 1

\* a dispatch has returned in which a listener threw and a listener that does
\* not throw was invoked after it
C11_Witness ==
    /\ hPc = "idle"
    /\ hRet = "void"
    /\ \E i, j \in DOMAIN hLog :
          i < j /\ hLog[i].listener \in hThrew /\ hLog[j].listener \notin hThrew

\* C12: within one dispatch no priority-0 listener is invoked before a
\* priority-1 listener, and two listeners of equal priority (high included)
\* are invoked in the order of their registration.
C12_PriorityThenRegistration ==
    \A i, j \in DOMAIN hLog :
        i < j =>
            /\ ~(hLog[i].priority = 0 /\ hLog[j].priority = 1)
            /\ hLog[i].priority = hLog[j].priority =>
                   EntryOf(HookState, hLog[i].listener) < EntryOf(HookState, hLog[j].listener)

\* C13: a dispatch that invokes a listener again calls the cleanup its previous
\* invocation returned before the body; removeListener of a registered
\* listener calls its last cleanup, leaves it unregistered and returns true;
\* removeListener of a listener that is not registered returns false and
\* changes nothing.
C13_CleanupProtocol ==
    [][/\ \A out \in Outcomes :
             (/\ hPc = "main"
              /\ hIdx <= Len(hEntries)
              /\ ~IsLowPriority(hEntries[hIdx])
              /\ hObj[hEntries[hIdx]].cleanup
              /\ Called(HookState, hEntries[hIdx], out)
              /\ HMainStep(NopEffect, out))
             => SubSeq(RunEvents(HookState, hEntries[hIdx], out), 1, 2)
                    = <<Event("cleanup", hObj[hEntries[hIdx]].listener),
                        Event("body", hObj[hEntries[hIdx]].listener)>>
       /\ \A l \in Listeners, cleanupThrows \in BOOLEAN :
             (hRet' \in {"true", "false", "throws"} /\ HRemoveListener(l, cleanupThrows)) =>
                 IF FindIndex(HookState, l) = 0
                 THEN hRet' = "false" /\ UNCHANGED <<hEntries, hObj>>
                 ELSE /\ hRet' = "true"
                      /\ \A i \in DOMAIN hEntries' : hObj'[hEntries'[i]].listener # l
                      /\ HasCleanup(HookState, l)
                             => DestroyEvents(HookState, l) = <<Event("cleanup", l)>>
      ]_vars

\* C17 as stated: addListener of a new callback while validate() is true runs
\* the callback at once when ssr is set and otherwise hands the run to
\* onMount, where the callback is invoked; while validate() is false (or
\* absent) addListener invokes nothing and schedules nothing.
C17_CatchUp ==
    [][/\ \A l \in Listeners, once \in BOOLEAN :
             (hRet' = "added" /\ FindIndex(HookState, l) = 0 /\ HAddListener(l, 0, once, "void")) =>
                 IF hOptions.validate = "true"
                 THEN IF hOptions.ssr
                      THEN hLog' = <<[listener |-> l, priority |-> 0]>> /\ hMounts' = hMounts
                      ELSE hLog' = <<>> /\ hMounts' = hMounts \cup {hNext + 1}
                 ELSE hLog' = <<>> /\ hMounts' = hMounts
       /\ \A e \in EntryIds :
             (hRet' = "mounted" /\ HMountRun(e, "void")) => hLog' = <<LogOf(HookState, e)>>
      ]_vars

\* C17, amended: as above, but the run at mount invokes the callback only if
\* its entry is still enabled: a once listener that a dispatch invoked
\* between addListener and the mount is not invoked at mount.  addListener of
\* a callback that is registered already invokes and schedules nothing.
C17_CatchUpWhileEnabled ==
    [][/\ \A l \in Listeners, once \in BOOLEAN :
             (hRet' = "added" /\ FindIndex(HookState, l) = 0 /\ HAddListener(l, 0, once, "void")) =>
                 IF hOptions.validate = "true"
                 THEN IF hOptions.ssr
                      THEN hLog' = <<[listener |-> l, priority |-> 0]>> /\ hMounts' = hMounts
                      ELSE hLog' = <<>> /\ hMounts' = hMounts \cup {hNext + 1}
                 ELSE hLog' = <<>> /\ hMounts' = hMounts
       /\ \A e \in EntryIds :
             (hRet' = "mounted" /\ HMountRun(e, "void")) =>
                 hLog' = IF hObj[e].disabled THEN <<>> ELSE <<LogOf(HookState, e)>>
       /\ hRet' = "kept" => hLog' = <<>> /\ hMounts' = hMounts
      ]_vars

\* the run handed to onMount has invoked the callback, without a dispatch
C17_Witness == hRet = "mounted" /\ hLog # <<>> /\ hPc = "idle"

\* C18: addListener of a callback that is registered already (the call that
\* returns early) leaves the entry list, the entries and the pending catch-up
\* runs as they are, any other addListener adds one entry; no callback has two
\* entries, and a dispatch invokes no callback twice.
C18_AddIdempotent ==
    [][/\ \A i, j \in DOMAIN hEntries' :
             hObj'[hEntries'[i]].listener = hObj'[hEntries'[j]].listener => i = j
       /\ hRet' = "void" =>
             \A l \in Listeners : Cardinality({i \in DOMAIN hLog' : hLog'[i].listener = l}) <= 1
       /\ hRet' = "kept" =>
             /\ hEntries # <<>>
             /\ UNCHANGED <<hEntries, hObj, hNext, hMounts>>
       /\ hRet' = "added" => Len(hEntries') = Len(hEntries) + 1
      ]_vars

\* addListener has just returned early for a registered callback
C18_Witness == hRet = "kept" /\ hEntries # <<>>

C16_RejectionSettles ==
    (sTrace /\ sRejected > 0) =>
        /\ sRejected <= sTotal - PendingCount
        /\ sEv = "reveal" => sNow = sSettledAt + SettleDelay
        /\ (PendingCount = 0 /\ sNow >= sSettledAt + SettleDelay /\ ~sDirty /\ sTimer # 0)
              => ~sSuspended

\* every task of the boundary has rejected and the boundary has just revealed
C16_Witness ==
    /\ sTrace
    /\ sTotal > 1
    /\ sRejected = sTotal
    /\ sEv = "reveal"
    /\ ~sSuspended

\* C15: the teardown of a component removes from the boundary only what that
\* component registered: every promise a still-mounted component has
\* registered and that has not settled is still in the pending set, so the
\* boundary stays suspended on its account, and every predicate a
\* still-mounted component has registered is still consulted.
C15_OwnEntriesOnly ==
    \A c \in Scoped :
        kAlive[c] => /\ kComponentTasks[c] \subseteq kPendingTasks
                     /\ kComponentTasks[c] # {} => HasPendingTask
                     /\ kComponentStates[c] \subseteq kPendingStates

-----------------------------------------------------------------------------
-----------------------------------------------------------------------------
\* C20: for every parameter of intro() and outro() (attach, instant,
\* inViewport, overlap policy, overwrite, dispatchEvents, ignore) the effective
\* value is the value given to the call, else the default of the direction
\* (options.intro / options.outro), else the instance-wide default, else the
\* built-in default.  The built-in default of inViewport is taken to be true
\* for outro() and false for intro(), and instant is compared where no
\* data-instant attribute applies to the attachment.
C20_Precedence ==
    tCall.op \in DirectionTypes =>
        LET type == tCall.op
            params == tCall.given.params
            rp == tCall.rp
            Effective(k, builtin) ==
                Coalesce(params[k], tOptions[type][k], Coalesce(tOptions[k], Unset, builtin))
            element == IF tCall.given.attach.present THEN {tCall.given.attach} ELSE Unset
        IN /\ rp.attach = Coalesce(element, tOptions[type].attach,
                                   Coalesce(tOptions.attach, Unset, NoAttachment))
           /\ rp.attach.dataInstant = "null" => rp.instant = Effective("instant", FALSE)
           /\ rp.inViewport = Effective("inViewport", type = "outro")
           /\ rp.overlapStrategy = Effective("overlapStrategy", "prevent")
           /\ rp.overwrite = Effective("overwrite", TRUE)
           /\ rp.dispatchEvents = Effective("dispatchEvents", FALSE)
           /\ rp.ignore = Effective("ignore", FALSE)

-----------------------------------------------------------------------------
\* C21 (as stated): idle() called before the onMount callback has run calls
\* no transition function, returns null, changes nothing and is queued; a
\* queued idle() is run by the onMount callback and by nothing else, and is
\* no longer queued then; idle() called after the mount runs at once.
C21_QueuedUntilMount ==
    [][/\ (tCall'.op = "idle" /\ "mount" \notin tSeen) =>
            /\ tCall'.passed = -1 /\ ~tCall'.ret /\ tQueuedIdle' # {}
            /\ UNCHANGED <<tAnims, tAnimation, tDirection, tRatio, tRecords>>
       /\ tCall'.idled # -1 => tCall'.op = "mount" /\ tQueuedIdle # {} /\ tQueuedIdle' = {}
       /\ (tCall'.op = "mount" /\ tQueuedIdle # {}) => tCall'.idled # -1 /\ tQueuedIdle' = {}
       /\ (tCall'.op = "idle" /\ "mount" \in tSeen) =>
            tCall'.passed # -1 /\ tQueuedIdle' = tQueuedIdle
      ]_vars

\* C21 (amended): idle() called before the onMount callback and before any
\* intro() or outro() calls no transition function, returns null, changes
\* nothing and is queued; a queued idle() is run by the first of the onMount
\* callback, intro() and outro(), by nothing else, and is no longer queued
\* then; idle() called after one of the three has run runs at once.
C21_QueuedUntilAllowed ==
    [][/\ (tCall'.op = "idle" /\ tSeen = {}) =>
            /\ tCall'.passed = -1 /\ ~tCall'.ret /\ tQueuedIdle' # {}
            /\ UNCHANGED <<tAnims, tAnimation, tDirection, tRatio, tRecords>>
       /\ tCall'.idled # -1 =>
            /\ tCall'.op \in {"mount", "intro", "outro"}
            /\ tSeen = {} /\ tQueuedIdle # {} /\ tQueuedIdle' = {}
       /\ (tCall'.op \in {"mount", "intro", "outro"} /\ tQueuedIdle # {}) =>
            tCall'.idled # -1 /\ tQueuedIdle' = {}
       /\ (tCall'.op = "idle" /\ tSeen # {}) =>
            tCall'.passed # -1 /\ tQueuedIdle' = tQueuedIdle
      ]_vars

\* the onMount callback has just run the idle() that was queued before it
C21_Witness ==
    /\ tCall.op = "mount" /\ tCall.idled # -1
    /\ tSeen = {"mount"} /\ tQueuedIdle = {} /\ tAnimation # 0

-----------------------------------------------------------------------------
\* C22: a resolution that finds a counterpart under its key but fails
\* validation returns the fallback (or an empty transition) and leaves nothing
\* under the key in either map; no resolution ever pairs with a node whose own
\* resolution was abandoned this way, and the abandoned node stays unpaired.
C22_AbandonedNotRetried ==
    [][\A c \in RegIds :
        /\ (xClosures[c].state = "pending" /\ xClosures'[c].state # "pending"
              /\ xClosures'[c].found # 0 /\ ~xClosures'[c].valid) =>
                /\ xClosures'[c].state = "fallback"
                /\ xToSend'[xClosures[c].key] = 0
                /\ xToReceive'[xClosures[c].key] = 0
        /\ (xClosures[c].state = "fallback" /\ xClosures[c].found # 0) =>
                /\ xClosures'[c] = xClosures[c]
                /\ \A d \in RegIds :
                     (xClosures[d].state = "pending" /\ xClosures'[d].state = "paired")
                        => xClosures'[d].counterpart # c
      ]_vars

\* a node was abandoned after it found its counterpart, and the counterpart,
\* resolved later, found nothing and got the fallback as well
C22_Witness ==
    \E c, d \in RegIds :
        /\ xClosures[c].state = "fallback" /\ xClosures[c].found = d /\ ~xClosures[c].valid
        /\ xClosures[d].state = "fallback" /\ xClosures[d].found = 0 /\ xClosures[d].valid


\* C23 (as stated): trackAnimation wrapping a declarative transition appends
\* a sample only when the direction is "out", and nothing for any other
\* direction.
C23_OnlyOut ==
    [][pCall'.op = "transition" =>
          IF pCall'.direction = "out"
          THEN Len(pTransitions') = Len(pTransitions) + 1
          ELSE pTransitions' = pTransitions
      ]_vars

\* C23 (amended): trackAnimation wrapping a declarative transition appends
\* the sample {node, delay, duration} for every direction but "in" (so for
\* "out" and for "both") and nothing for "in"; tracking an animation handle
\* always appends one sample without node, holding the handle's delay and
\* duration in ms; a null argument or a node without factory or options
\* appends nothing; the returned config holds the wrapped transition's delay
\* and duration, 0 where the transition gives none.
C23_RecordingRule ==
    [][/\ pCall'.op = "transition" =>
            /\ pCall'.ret = Returned("config", OrZero(pCall'.delay), OrZero(pCall'.duration))
            /\ IF pCall'.direction # "in"
               THEN pTransitions' = Append(pTransitions,
                        Sample(pCall'.node, pCall'.ret.delay, pCall'.ret.duration))
               ELSE pTransitions' = pTransitions
       /\ pCall'.op = "animation" =>
            /\ pCall'.ret.kind = "handle"
            /\ pTransitions' = Append(pTransitions,
                    Sample(0, OrZero(pCall'.delay) * MsPerSecond,
                              OrZero(pCall'.duration) * MsPerSecond))
       /\ pCall'.op = "nothing" =>
            /\ pCall'.ret.kind \in Nothings
            /\ pTransitions' = pTransitions
      ]_vars

\* a transition of direction "both" that gives no delay has been wrapped:
\* its sample is in the list, with delay 0
C23_Witness ==
    /\ pCall.op = "transition"
    /\ pCall.direction = "both"
    /\ pCall.delay = NoValue
    /\ pCall.ret.delay = 0
    /\ Len(pTransitions) = 1
    /\ pTransitions[1].node = pCall.node
    /\ pTransitions[1].duration = pCall.ret.duration


\* C24: every page swap that starts (the outro of page p sets swapping and
\* installs the deferred p) is eventually completed by the destruction of the
\* leaving page: swapping() is false, the afterSwap listeners were given the
\* entering page p + 1 and the deferred p is resolved.
C24_SwapCompletes ==
    \A p \in Pages :
        (aSwapping /\ aSwap = p /\ p \in Leaving(aPage) /\ p \notin aResolved)
            ~> (/\ aPage[p] = "destroyed"
                /\ ~aSwapping
                /\ (p + 1) \in aAfter
                /\ p \in aResolved)

\* the first swap has just been completed by the destruction of page 1
C24_Witness ==
    /\ aLast = "destroy"
    /\ aPage[1] = "destroyed"
    /\ ~aSwapping
    /\ aSwap = 1
    /\ aResolved = {0, 1}
    /\ aAfter = {1, 2}

\* C25: while swapping() is true no navigation is under way and every
\* navigation that starts is cancelled, no further page starts to leave, and
\* the current swap deferred is never replaced before it has been resolved.
C25_SingleSwap ==
    [][/\ aSwapping =>
            /\ ~aNav /\ ~aNav'
            /\ aLast' # "navigating"
            /\ Leaving(aPage') \subseteq Leaving(aPage)
       /\ aSwap' # aSwap => aSwap \in aResolved
      ]_vars

\* a navigation has been cancelled during the swap from page 1 to page 2
C25_Witness ==
    /\ aLast = "cancelled"
    /\ aSwapping
    /\ aSwap = 1
    /\ 1 \notin aResolved
    /\ Leaving(aPage) = {1}

\* C26: frozen() and scrollPaused() are true exactly when at least one
\* component holds the flag, and the components in the set of a flag are
\* exactly those whose own last call set it to true and that have not been
\* destroyed since: no call and no destruction ends the hold of another
\* component.
C26_MultiOwner ==
    /\ Frozen <=> aHeld["frozen"] # {}
    /\ ScrollPaused <=> aHeld["scrollPaused"] # {}
    /\ aFrozen = aHeld["frozen"]
    /\ aScrollPaused = aHeld["scrollPaused"]

\* a page that froze the application at its exit has been destroyed while
\* another component holds the flag: frozen() is still true
C26_Witness ==
    /\ aLast = "destroy"
    /\ aPage[1] = "destroyed"
    /\ aFrozen \cap Widgets # {}
    /\ aFrozen \cap Pages = {}
    /\ Frozen
    /\ ~ScrollPaused


RECURSIVE FirstOf(_, _, _)
FirstOf(events, kind, i) ==
    IF i > Len(events) THEN 0
    ELSE IF events[i].e = kind THEN i
    ELSE FirstOf(events, kind, i + 1)

\* the step is an intro() / outro() that finds an animation of its own
\* direction active and goes on under the policy
SameDirectionCall(policy) ==
    /\ tCall'.op \in {"intro", "outro"}
    /\ tCall'.same
    /\ tCall'.events # <<>>
    /\ tCall'.rp.overlapStrategy = policy

\* the progress p the step read from the active animation: that of the
\* animation the instance held, where no queued idle() ran first
ReadsProgress ==
    LET ev == tCall'.events
    IN /\ ev[1].e = "read"
       /\ tQueuedIdle = {} =>
            (tAnimation # 0 /\ tDirection = ev[FirstOf(ev, "call", 1)].d
                /\ ev[1].v = tAnims[tAnimation].progress)

\* add: the transition function is called with ratio p
AddLayers ==
    LET ev == tCall'.events
    IN /\ FirstOf(ev, "call", 1) # 0
       /\ ev[FirstOf(ev, "call", 1)].v = ev[1].v
       /\ tCall'.passed = ev[1].v

\* restart: the active animation is reverted, then the transition function is
\* called with ratio 0
RestartReverts ==
    LET ev == tCall'.events
    IN /\ FirstOf(ev, "revert", 1) # 0
       /\ FirstOf(ev, "revert", 1) < FirstOf(ev, "call", 1)
       /\ ev[FirstOf(ev, "call", 1)].v = 0
       /\ tCall'.passed = 0

\* invalidate: an idle() of the opposite direction runs first, ignored (it
\* records nothing), with the element and the data of the last record of that
\* direction; then the transition function is called with ratio 0
InvalidateIdles ==
    LET ev == tCall'.events
        idle == FirstOf(ev, "idle", 1)
        call == FirstOf(ev, "call", 1)
    IN /\ idle # 0 /\ idle < call
       /\ ev[idle].d = Opposite(ev[call].d)
       /\ FirstOf(ev[idle].inner, "call", 1) # 0
       /\ FirstOf(ev[idle].inner, "record", 1) = 0
       /\ tQueuedIdle = {} =>
            /\ ev[idle].a = tRecords[ev[idle].d].attach
            /\ ev[idle].data = tRecords[ev[idle].d].data
       /\ ev[call].v = 0
       /\ tCall'.passed = 0

\* after the call of the transition function, the progress of what it
\* returned is set to v
SetsProgress(v) ==
    LET ev == tCall'.events
        set == FirstOf(ev, "progress", 1)
    IN /\ set # 0
       /\ FirstOf(ev, "call", 1) < set
       /\ ev[set].v = v

\* C28 (as claimed): a transition requested in the direction of the active
\* animation, at progress p: under add the new transition starts with ratio p;
\* under restart the active animation is reverted and the new one starts with
\* ratio 0; under invalidate an ignored idle of the opposite direction runs
\* first, with that direction's last recorded element and data, the new
\* transition starts with ratio 0 and its progress is set to p.
C28_OverlapTable ==
    [][/\ SameDirectionCall("add") => (ReadsProgress /\ AddLayers)
       /\ SameDirectionCall("restart") => (ReadsProgress /\ RestartReverts)
       /\ SameDirectionCall("invalidate") =>
            (ReadsProgress /\ InvalidateIdles /\ SetsProgress(tCall'.events[1].v))]_vars

\* C28 (amended): the same, except that under invalidate the progress of the
\* new animation is set only if the transition function returned one, and to
\* 1 where the transition is instant, to p otherwise.
C28_OverlapTableUnlessInstant ==
    [][/\ SameDirectionCall("add") => (ReadsProgress /\ AddLayers)
       /\ SameDirectionCall("restart") => (ReadsProgress /\ RestartReverts)
       /\ SameDirectionCall("invalidate") =>
            /\ ReadsProgress /\ InvalidateIdles
            /\ IF tCall'.ret
               THEN SetsProgress(IF tCall'.rp.instant THEN PMax ELSE tCall'.events[1].v)
               ELSE FirstOf(tCall'.events, "progress", 1) = 0]_vars

\* An intro() under invalidate during an intro a third of its way, after an
\* outro() with data on the element: the idle of direction out ran first with
\* that element and data, the transition function was called with ratio 0 and
\* the new animation resumed at 1/3.
C28_Witness ==
    /\ tCall.op = "intro" /\ tCall.same /\ tCall.rp.overlapStrategy = "invalidate"
    /\ ~tCall.rp.instant /\ tCall.ret
    /\ \E i \in DOMAIN tCall.events :
          /\ tCall.events[i].e = "idle"
          /\ tCall.events[i].d = "out"
          /\ tCall.events[i].a = Shown
          /\ tCall.events[i].data = {TRUE}
    /\ tCall.events[1] = Did("read", 1, "none", NoAttachment)
    /\ tCall.passed = 0
    /\ tAnims[AnimId("in")] = [progress |-> 1, state |-> "running"]
    /\ tRecords["in"].ratio = 0

\* the step is an intro() / outro() that reads the progress of an active
\* animation and calls the transition function
CallOverActive ==
    /\ tCall'.op \in {"intro", "outro"}
    /\ tCall'.events # <<>>
    /\ tCall'.events[1].e = "read"
    /\ FirstOf(tCall'.events, "call", 1) # 0

\* the idle() of the step killed the active animation
IdleKills ==
    \E i \in DOMAIN tCall'.events :
        tCall'.events[i].e = "idle" /\ FirstOf(tCall'.events[i].inner, "kill", 1) # 0

\* the progress is read, then the animation killed, then the transition
\* function called
KillsBetween ==
    LET ev == tCall'.events
    IN /\ 1 < FirstOf(ev, "kill", 1)
       /\ FirstOf(ev, "kill", 1) < FirstOf(ev, "call", 1)

\* C29 (as claimed): when overwrite is set and an animation is active, its
\* progress is read, then it is killed, and only then is the transition
\* function called to create the new animation; with overwrite false the new
\* transition never kills the previous animation.
C29_OverwriteOrder ==
    [][CallOverActive =>
        IF tCall'.rp.overwrite THEN KillsBetween
        ELSE FirstOf(tCall'.events, "kill", 1) = 0 /\ ~IdleKills]_vars

\* C29 (amended): the same order when overwrite is set; with overwrite false
\* _executeTransition does not kill the previous animation itself, and the
\* previous animation is killed exactly where the invalidate policy applies
\* (an animation of the direction asked for is active) and the overwrite of
\* the instance's idle options is not false: the idle() that policy runs
\* kills it.
C29_OverwriteOrderBesideIdle ==
    [][CallOverActive =>
        IF tCall'.rp.overwrite THEN KillsBetween
        ELSE /\ FirstOf(tCall'.events, "kill", 1) = 0
             /\ IdleKills <=>
                    /\ tCall'.same
                    /\ tCall'.rp.overlapStrategy = "invalidate"
                    /\ Coalesce(Unset, ResolveOptions("idle").overwrite, TRUE)]_vars

\* An outro() with overwrite: false under invalidate, on an instance with the
\* default options, during an outro a third of its way: the idle() of
\* direction in killed the running animation, _executeTransition itself
\* killed nothing, and the new animation resumed at 1/3.
C29_Witness ==
    /\ tOptions = NoOptions
    /\ tCall.op = "outro" /\ tCall.same /\ ~tCall.rp.overwrite
    /\ tCall.rp.overlapStrategy = "invalidate"
    /\ tCall.events[1] = Did("read", 1, "none", NoAttachment)
    /\ \E i \in DOMAIN tCall.events :
          /\ tCall.events[i].e = "idle"
          /\ \E j \in DOMAIN tCall.events[i].inner : tCall.events[i].inner[j].e = "kill"
    /\ \A i \in DOMAIN tCall.events : tCall.events[i].e # "kill"
    /\ tAnims[AnimId("out")] = [progress |-> 1, state |-> "running"]

\* C30: after any sequence of idle(), intro() and outro() calls, the pointer
\* events of an element are disabled if and only if the last call executed on
\* it (neither skipped nor ignored) had direction out.
C30_PointerEventsFollowDirection ==
    \A e \in ElementIds : e \in tPointer <=> tExecuted[e] = "out"

\* An intro() was executed on an element after an outro() on it had disabled
\* its pointer events, which are restored.
C30_Witness ==
    /\ tCall.op = "intro" /\ ~tCall.ignore /\ tCall.events # <<>>
    /\ tRecords["out"].type = "outro" /\ tRecords["out"].attach = Shown
    /\ tRecords["in"].type = "intro" /\ tRecords["in"].attach = Shown
    /\ tExecuted[ElementId(Shown)] = "in"
    /\ ElementId(Shown) \notin tPointer

\* the step is an idle(), intro() or outro() that was executed with ignore
IgnoredCall ==
    /\ tCall'.op \in {"idle", "intro", "outro"}
    /\ tCall'.ignore
    /\ FirstOf(tCall'.events, "call", 1) # 0

\* nothing of the kinds was done, by the step or by the idle() it ran
RECURSIVE NoneOf(_, _)
NoneOf(events, kinds) ==
    \A i \in DOMAIN events :
        events[i].e \notin kinds /\ NoneOf(events[i].inner, kinds)

\* C31: a transition executed with ignore: true leaves the animation of the
\* instance, direction(), ratio() and the records as they were, dispatches no
\* start / end event and leaves pointer events alone, and returns the
\* animation the transition function made.
C31_IgnoreLeavesInstance ==
    [][IgnoredCall =>
        /\ tQueuedIdle = {} =>
              UNCHANGED <<tAnimation, tDirection, tRatio, tRecords, tPointer, tExecuted>>
        /\ NoneOf(tCall'.events, {"record", "pointer", "dispatch"})
        /\ tCall'.ret <=> FirstOf(tCall'.events, "made", 1) # 0]_vars

\* An outro() with ignore and dispatchEvents on the element has returned an
\* animation during an intro: the instance still holds the intro, the outro is
\* not recorded and the pointer events of the element are not disabled.
C31_Witness ==
    /\ tCall.op = "outro" /\ tCall.ignore /\ tCall.ret
    /\ tCall.rp.dispatchEvents /\ tCall.rp.attach = Shown
    /\ tAnimation = AnimId("in") /\ tDirection = "in"
    /\ tRecords["in"].type = "intro"
    /\ tRecords["out"] = NoRecord
    /\ tExecuted[ElementId(Shown)] = "in"
    /\ ElementId(Shown) \notin tPointer

\* C32 (as claimed): at the start of the exit of a page, frozen and
\* scrollPaused are set and the new deferred is installed before the
\* beforeSwap listeners are notified: a listener reads frozen(),
\* scrollPaused() and swapping() as true and swap() as the deferred whose
\* promise it was given.
C32_SwapStartOrder ==
    [][aLast' = "outro" =>
        /\ Frozen /\ ScrollPaused
        /\ aBefore'.swapping
        /\ aBefore'.swap = aBefore'.promise]_vars

\* C32 (amended): outro notifies the beforeSwap listeners, with the promise of
\* a new deferred, before it sets swapping and installs the deferred: a
\* listener reads swapping() as false and swap() as the previous deferred,
\* which is resolved; outro leaves frozen and scrollPaused as they are, and the
\* page sets them afterwards, once, on the first outrostart of an element
\* inside it while swapping() is true.
C32_BeforeSwapComesFirst ==
    [][/\ aLast' = "outro" =>
            /\ ~aBefore'.swapping
            /\ aBefore'.swap = aSwap /\ aBefore'.swap # aBefore'.promise
            /\ aBefore'.swap \in aResolved
            /\ aSwapping' /\ aSwap' = aBefore'.promise
            /\ aBefore'.promise \notin aResolved'
            /\ UNCHANGED <<aFrozen, aScrollPaused>>
       /\ aLast' = "outrostart" =>
            /\ aSwapping
            /\ \E p \in aOnce' \ aOnce : p \in aFrozen' /\ p \in aScrollPaused'
            /\ Frozen' /\ ScrollPaused']_vars

\* The second page leaves: its beforeSwap listeners were given the promise of
\* a new deferred while swap() was the resolved deferred of the first swap, and
\* nothing has frozen the application yet.
C32_Witness ==
    /\ aLast = "outro"
    /\ aBefore = [leaving |-> 2, swapping |-> FALSE, swap |-> 1, promise |-> 2]
    /\ 1 \in aResolved
    /\ aSwapping /\ aSwap = 2
    /\ ~Frozen /\ ~ScrollPaused

\* C40: within one page transition the promise given to the beforeSwap
\* listeners, the promise given to the onSwap listeners and the deferred
\* resolved after the afterSwap dispatch belong to the same deferred; no
\* deferred given to the listeners of a transition stays unresolved because
\* another one was resolved in its place.
C40_OneDeferredPerSwap ==
    \A p \in Pages :
        /\ aHanded[p].on # -1 => aHanded[p].on = aHanded[p].before
        /\ aHanded[p].done # -1 =>
              /\ aHanded[p].done = aHanded[p].before
              /\ aHanded[p].before \in aResolved
        /\ (aHanded[p].before # -1 /\ aHanded[p].before \notin aResolved) =>
              (aSwapping /\ aSwap = aHanded[p].before)

\* Two transitions are over: in each the listeners of beforeSwap and onSwap
\* were given the promise of the deferred that was resolved at its end.
C40_Witness ==
    /\ aHanded[1] = [before |-> 1, on |-> 1, done |-> 1]
    /\ aHanded[2] = [before |-> 2, on |-> 2, done |-> 2]
    /\ {1, 2} \subseteq aResolved
    /\ ~aSwapping

\* _resolvedTaskCount = _totalTaskCount - _pendingTaskCount
ResolvedTaskCount == sTotal - PendingCount

\* _progress = _resolvedTaskCount / (_totalTaskCount || 1), as a fraction
Progress == [num |-> ResolvedTaskCount, den |-> IF sTotal = 0 THEN 1 ELSE sTotal]

\* C33: whatever is registered, settles or is torn down, also while the
\* boundary is revealed, totalTaskCount() counts the tasks registered (so it
\* is at least the number of pending ones), resolvedTaskCount() lies between 0
\* and totalTaskCount(), and progress() lies in [0, 1] and is 0 when no task
\* is registered.
C33_CountersInRange ==
    /\ PendingCount <= sTotal
    /\ 0 <= ResolvedTaskCount /\ ResolvedTaskCount <= sTotal
    /\ 0 <= Progress.num /\ Progress.num <= Progress.den
    /\ sTotal = 0 => Progress.num = 0

\* C34: a listener registered with once: true is invoked at most once, and
\* after that execution it is removed from the hook: once the call that ran it
\* has returned, no entry of the hook is that of a once listener that has been
\* executed, so that removeListener of it returns false and addListener of the
\* same callback registers it again.
C34_OnceListenerRemoved ==
    hPc = "idle" =>
        \A e \in Range(hEntries) : ~(hObj[e].once /\ hObj[e].disabled)


\* C36: every cleanup a listener invocation returned is called at most once,
\* whatever is dispatched or removed, also when a later invocation of the
\* listener throws: no call of the hook calls a cleanup that had been called
\* before.
C36_CleanupAtMostOnce ==
    hTwice = {}


\* C35: overlap applies only to an animation in flight.  A plain intro() or
\* outro() (no parameter, so the policy is prevent; no element, so it is not
\* skipped; the transition function returns an animation), called in the
\* direction of the instance when the animation the instance holds has
\* completed (progress 1), whether an intro, an outro or an idle made it, is
\* executed and returns an animation.
C35_CompletedIsNotOverlap ==
    [][(/\ tAnimation # 0
        /\ tAnims[tAnimation].progress = PMax
        /\ tQueuedIdle = {}
        /\ \E d \in Directions2 :
              /\ tDirection = d
              /\ Transition(d, PlainCall.params, PlainCall.attach, TRUE, TRUE))
       => tCall'.ret]_vars

\* the call the step made was an intro() or outro() that the skip rule
\* applies to: bypass, out with instant, or not in the viewport
SkippedCall ==
    /\ tCall.op \in DirectionTypes
    /\ ShouldSkipTransition(IF tCall.op = "intro" THEN "in" ELSE "out", tCall.rp.bypass,
                            tCall.rp.instant, tCall.rp.attach.present, tCall.rp.inViewport,
                            tCall.rp.attach.visible)

\* C39 (as stated): an intro() / outro() call that is skipped leaves the
\* animation handle, direction(), ratio(), the per-direction records, the
\* pointer events and the queued idle unchanged, before and after the mount.
C39_SkippedCallFrame ==
    [][SkippedCall' =>
        UNCHANGED <<tAnimation, tDirection, tRatio, tRecords, tPointer, tQueuedIdle>>]_vars

\* C39 (amended): a skipped intro() / outro() call returns null without
\* calling the transition function for itself.  With no idle queued it
\* leaves the animations, the animation handle, direction(), ratio(), the
\* per-direction records, the pointer events and the (empty) queue
\* unchanged.  With an idle queued (the call comes before the mount) it runs
\* that idle first, as every intro() / outro() does: the instance is left as
\* _handleIdle leaves it and the queue is emptied.
C39_SkippedCallRunsQueuedIdle ==
    [][SkippedCall' =>
        /\ ~tCall'.ret
        /\ tCall'.passed = -1
        /\ tQueuedIdle' = {}
        /\ tAllowIdle'
        /\ UNCHANGED tPointer
        /\ tQueuedIdle = {} =>
              /\ UNCHANGED <<tAnims, tAnimation, tDirection, tRatio, tRecords>>
              /\ tCall'.idled = -1
        /\ tQueuedIdle # {} =>
              \E madeIdle \in BOOLEAN :
                 LET st == HandleIdle(tCall'.given.attach, madeIdle)
                 IN /\ tAnims' = Retained(st)
                    /\ tAnimation' = st.animation
                    /\ tDirection' = st.direction
                    /\ tRatio' = st.ratio
                    /\ tRecords' = st.records
                    /\ tCall'.idled = st.passed
                    /\ st.passed # -1]_vars

\* before the mount, an outro() skipped for its element's data-bypass has
\* run the queued idle, whose animation the instance now holds
C39_Witness ==
    /\ SkippedCall
    /\ tCall.op = "outro"
    /\ tCall.rp.bypass
    /\ "mount" \notin tSeen
    /\ tCall.idled # -1
    /\ tAnimation # 0
    /\ tQueuedIdle = {}

\* C38: under resize re-preload, imagePreloaded(query) is true only if the
\* preload promise created last for the query's entry has resolved; and when
\* a promise that a resize has replaced settles, the entries stay as they
\* are: the entry is neither marked resolved nor removed, and its current
\* element stays in the root.
C38_LatestPromiseDecides ==
    [][/\ \A q \in Queries :
            iImages'[q].resolved => iPromises'[iImages'[q].promise].state = "resolved"
       /\ (/\ iCall'.op \in {"resolve", "reject"}
           /\ iImages[iCall'.query].promise # iCall'.promise) => UNCHANGED iImages]_vars

\* C37: pairing is symmetric.  Where one send node and one receive node have
\* registered under a key and both have resolved, in either order and
\* whatever their validation gave, the send side has run its paired
\* transition if and only if the receive side has run its own; and under
\* any registrations, no node has run a paired transition with a
\* counterpart that has run its fallback.
C37_PairingSymmetric ==
    /\ \A c, d \in RegIds :
        (/\ xClosures[c].side = "send"
         /\ xClosures[d].side = "receive"
         /\ xClosures[c].key = xClosures[d].key
         /\ \A e \in RegIds \ {c, d} : xClosures[e].key # xClosures[c].key
         /\ xClosures[c].state \in {"paired", "fallback"}
         /\ xClosures[d].state \in {"paired", "fallback"})
            => (xClosures[c].state = "paired" <=> xClosures[d].state = "paired")
    /\ \A c \in RegIds :
        xClosures[c].state = "paired" =>
            xClosures[xClosures[c].counterpart].state # "fallback"
=============================================================================
